---- MODULE Spec2Model ----
(***************************************************************************)
(* Telemetry ingestion and alert rules service: the Stream Registry        *)
(* (app/stream_manager.py), the Deduplication Gate (app/rule_engine.py)    *)
(* and the Ingestion Orchestrator (app/routes/telemetry.py).               *)
(*                                                                         *)
(* The service runs on one asyncio event loop: a coroutine runs until it   *)
(* awaits something that suspends.  The registry lock is never held across *)
(* an await, so every "async with self._lock" block is one atomic step.    *)
(* The awaits that suspend are the sink calls (is_disconnected, send_json) *)
(* and the database calls (flush, execute, commit).                        *)
(***************************************************************************)
EXTENDS Integers, Sequences, FiniteSets, TLC

\* ------------------------------------------------------------------ bounds
\* Registrations in the whole registry (both channels together).
MaxSubs == 2
\* The clock stops advancing here.
MaxTime == 2
\* Ingestion requests one handler serves.
MaxIngest == 1
\* Rows of the alerts table a check_deduplication call is tried against.
MaxRows == 2
\* Calls of close_all_streams.
MaxShutdowns == 2
\* Species detections one telemetry record carries.
MaxDetections == 2
\* settings.rate_limit_max and settings.rate_limit_window_seconds (in seconds), as
\* RateLimitMiddleware.__init__ reads them.
max_requests == 2
window_seconds == 2

\* ------------------------------------------------------------- the universe
\* Transport sinks (fastapi Request objects handed to the registry).
Sinks == {"r1", "r2"}
AuvIds == {"AUV-001", "AUV-002"}
ALL == "all"
\* Python's None, for an Optional[str] auv_id.
None == "None"
\* What a stream endpoint passes as auv_id when it subscribes ...
SubscribeArgs == AuvIds \cup {None}
\* ... and what a caller of send_*_event passes.
PublishArgs == {"AUV-001", ALL, None}
\* Tasks that call the registry's publish methods directly ...
Publishers == {"p1"}
\* ... and request handlers running ingest_telemetry: the one that serves the
\* requests arriving one at a time, and all of them.
Ingestors == {"i1"}
Handlers == {"i1", "i2"}
Tasks == Publishers \cup Handlers

VARIABLES
    alert_streams,      \* StreamManager.alert_streams: dict key -> list of sinks
    telemetry_streams,  \* StreamManager.telemetry_streams
    connected,          \* sinks whose client is still there (is_disconnected() is false)
    pub,                \* per task: the frame of its send_*_event call
    invoked,            \* the send_json call of the latest step: its sink and outcome
    base,               \* per task: its publish call as seen while nothing else touched
                        \* the registry or the sinks: the registry at the call and the
                        \* send_json invocations per sink since
    alert_rules,        \* table alert_rules, in load order
    telemetry,          \* table telemetry: the committed rows (their ids)
    alerts,             \* table alerts: the committed rows
    now,                \* datetime.utcnow(), in seconds
    nextId,             \* the next fresh row id (uuid4)
    ing,                \* per request handler: the frame of its ingest_telemetry call
    delivered,          \* events a sink's send_json accepted: channel, ingestion, sink
    dedup,              \* the latest check_deduplication call: its arguments and result
    lock,               \* StreamManager._lock: the task holding it, None when free
    call,               \* per caller: the frame of its registry call, lock steps apart
    gen,                \* per request: the frame of the event_generator serving it
    active_streams,     \* the latest get_active_streams call: its outcome
    closed,             \* close_all_streams calls so far
    evaluated,          \* the latest call of an evaluator: its arguments and result
    rate_limit_storage, \* middleware.rate_limit_storage: dict client ip -> timestamps
    response            \* the RateLimitMiddleware calls: client and status of the latest,
                        \* and per client and second the requests accepted so far

regVars == <<alert_streams, telemetry_streams, connected, pub, invoked, base>>
dbVars == <<alert_rules, telemetry, alerts, now, nextId, ing, delivered, dedup>>
auxVars == <<lock, call, gen, active_streams, closed, evaluated,
             rate_limit_storage, response>>
vars == <<alert_streams, telemetry_streams, connected, pub, invoked, base,
          alert_rules, telemetry, alerts, now, nextId, ing, delivered, dedup,
          lock, call, gen, active_streams, closed, evaluated,
          rate_limit_storage, response>>

\* ------------------------------------------------------------ dict helpers
EmptyDict == [k \in {} |-> <<>>]
Get(d, k) == IF k \in DOMAIN d THEN d[k] ELSE <<>>
Put(d, k, v) == [x \in DOMAIN d \cup {k} |-> IF x = k THEN v ELSE d[x]]
Del(d, k) == [x \in DOMAIN d \ {k} |-> d[x]]
Count(s, seq) == Cardinality({i \in 1..Len(seq) : seq[i] = s})
TotalSinks(d) == LET RECURSIVE Sum(_)
                     Sum(K) == IF K = {} THEN 0
                               ELSE LET k == CHOOSE x \in K : TRUE
                                    IN Len(d[k]) + Sum(K \ {k})
                 IN Sum(DOMAIN d)

\* Python truthiness of an Optional[str].
Truthy(auv_id) == auv_id # None /\ auv_id # ""
KeyOf_NoDefault(auv_id) == auv_id

\* key = auv_id or "all"
KeyOf(auv_id) == IF Truthy(auv_id) THEN auv_id ELSE ALL

\* ------------------------------------------------------- StreamManager
Streams(ch) == IF ch = "alert" THEN alert_streams ELSE telemetry_streams

\* The body of add_alert_stream / add_telemetry_stream on dict d.
AddStream(d, auv_id, request) ==
    LET key == KeyOf(auv_id)
    IN Put(d, key, Append(Get(d, key), request))

RemoveStream_KeepEmptyKey(d, auv_id, request) ==
    LET key == IF auv_id # None /\ auv_id # "" THEN auv_id ELSE "all"
    IN IF key \in DOMAIN d
       THEN [x \in DOMAIN d |->
               IF x = key THEN SelectSeq(d[key], LAMBDA req : req # request) ELSE d[x]]
       ELSE d

\* The body of remove_alert_stream / remove_telemetry_stream on dict d.
RemoveStream(d, auv_id, request) ==
    LET key == KeyOf(auv_id)
    IN IF key \in DOMAIN d
       THEN LET rest == SelectSeq(d[key], LAMBDA req : req # request)
            IN IF rest = <<>> THEN Del(d, key) ELSE Put(d, key, rest)
       ELSE d

SetStreams_Both(ch, d) == alert_streams' = d /\ telemetry_streams' = d

SetStreams(ch, d) ==
    IF ch = "alert"
    THEN alert_streams' = d /\ UNCHANGED telemetry_streams
    ELSE telemetry_streams' = d /\ UNCHANGED alert_streams

\* A frame of send_alert_event / send_telemetry_event and of the
\* _send_to_*_streams call it is in; streams holds what "for request in streams"
\* has still to visit, the request at hand first.
IdleFrame == [chan |-> "alert", auv_id |-> None, pass |-> "all",
              streams |-> <<>>, stage |-> "idle"]
NoSends == [s \in Sinks |-> 0]
\* The latest step called send_json on no sink.
NoCall == [sink |-> None, outcome |-> None]
Stale == [ok |-> FALSE, reg |-> EmptyDict, sent |-> NoSends]

\* The key the current _send_to_*_streams call was given.
PassKey(p) == IF p.pass = "key" THEN p.auv_id ELSE ALL

\* _send_to_*_streams returns: send_*_event goes on to its "all" call, or returns.
PassEnd(p) ==
    IF p.pass = "key"
    THEN [p EXCEPT !.pass = "all", !.streams = <<>>, !.stage = "snap"]
    ELSE [p EXCEPT !.streams = <<>>, !.stage = "returned"]

\* "for request in streams": the next element, or the end of the loop.
LoopHead(p) ==
    IF p.streams = <<>> THEN PassEnd(p) ELSE [p EXCEPT !.stage = "check"]

\* "continue", or the end of the loop body: on to the next request.
NextRequest(p) == LoopHead([p EXCEPT !.streams = Tail(@)])

\* Task t changed the registry (changed says so): every other task's call is no
\* longer an undisturbed one.
Disturb(t, changed) ==
    [u \in Tasks |-> IF u # t /\ changed THEN Stale ELSE base[u]]

\* send_alert_event / send_telemetry_event is entered: "if auv_id:" picks the
\* first _send_to_*_streams call.
FirstPass_AllOnly(auv_id) == "all"

FirstPass(auv_id) == IF Truthy(auv_id) THEN "key" ELSE "all"

BeginPublish(t, ch, auv_id) ==
    /\ pub' = [pub EXCEPT ![t] = [chan |-> ch, auv_id |-> auv_id,
                                  pass |-> FirstPass(auv_id),
                                  streams |-> <<>>, stage |-> "snap"]]
    /\ base' = [base EXCEPT ![t] = [ok |-> TRUE, reg |-> Streams(ch), sent |-> NoSends]]
    /\ invoked' = NoCall

\* The "async with self._lock" block of _send_to_*_streams: the key's list is
\* copied, or the call returns when the key is not there.
TakeSnapshot(p, d) ==
    LET key == PassKey(p)
    IN IF key \notin DOMAIN d
       THEN PassEnd(p)
       ELSE LoopHead([p EXCEPT !.streams = d[key]])

send_to_streams_snapshot(t) ==
    /\ pub[t].stage = "snap"
    /\ pub' = [pub EXCEPT ![t] = TakeSnapshot(@, Streams(@.chan))]
    /\ invoked' = NoCall
    /\ UNCHANGED <<alert_streams, telemetry_streams, connected, base>>

\* "if await request.is_disconnected():" has its answer for the request at hand.
AfterDisconnectedCheck(p, isDisconnected) ==
    IF isDisconnected THEN NextRequest(p) ELSE [p EXCEPT !.stage = "send"]

AfterCheckRegistry_NoPrune(d, key, request, isDisconnected) == d

\* The registry after that answer: a disconnected request is removed under the key.
AfterCheckRegistry(d, key, request, isDisconnected) ==
    IF isDisconnected THEN RemoveStream(d, key, request) ELSE d

send_to_streams_check(t) ==
    /\ pub[t].stage = "check"
    /\ LET p == pub[t]
           request == Head(p.streams)
           gone == request \notin connected
       IN /\ pub' = [pub EXCEPT ![t] = AfterDisconnectedCheck(p, gone)]
          /\ SetStreams(p.chan, AfterCheckRegistry(Streams(p.chan), PassKey(p), request, gone))
    /\ base' = Disturb(t, Streams(pub[t].chan)' # Streams(pub[t].chan))
    /\ invoked' = NoCall
    /\ UNCHANGED connected

\* What "await request.send_json(event_data)" may do: return, raise, or never
\* complete.
SendOutcomes == {"ok", "raise", "hang"}

\* The registry after send_json ended with outcome o for request under key.
AfterSendRegistry(d, key, request, o) ==
    IF o = "raise" THEN RemoveStream(d, key, request) ELSE d

AfterSendFrame_AbortOnError(p, o) ==
    IF o = "hang" THEN [p EXCEPT !.stage = "hung"]
    ELSE IF o = "raise" THEN PassEnd(p) ELSE NextRequest(p)

\* The frame after send_json ended with outcome o.
AfterSendFrame(p, o) ==
    IF o = "hang" THEN [p EXCEPT !.stage = "hung"] ELSE NextRequest(p)

\* "await request.send_json(event_data)" is called on the request at hand and
\* ends with outcome o.
send_to_streams_send(t, o) ==
    /\ pub[t].stage = "send"
    /\ LET p == pub[t]
           request == Head(p.streams)
       IN /\ invoked' = [sink |-> request, outcome |-> o]
          /\ base' = [Disturb(t, o = "raise") EXCEPT ![t] =
                        IF @.ok THEN [@ EXCEPT !.sent[request] = @ + 1] ELSE @]
          /\ pub' = [pub EXCEPT ![t] = AfterSendFrame(p, o)]
          /\ SetStreams(p.chan, AfterSendRegistry(Streams(p.chan), PassKey(p), request, o))
    /\ UNCHANGED connected

\* ------------------------------------------------ callers of the registry
RegistrySize == TotalSinks(alert_streams) + TotalSinks(telemetry_streams)

add_alert_stream(auv_id, request) ==
    /\ RegistrySize < MaxSubs
    /\ alert_streams' = AddStream(alert_streams, auv_id, request)
    /\ base' = [u \in Tasks |-> Stale]
    /\ invoked' = NoCall
    /\ UNCHANGED <<telemetry_streams, connected, pub>>

add_telemetry_stream(auv_id, request) ==
    /\ RegistrySize < MaxSubs
    /\ telemetry_streams' = AddStream(telemetry_streams, auv_id, request)
    /\ base' = [u \in Tasks |-> Stale]
    /\ invoked' = NoCall
    /\ UNCHANGED <<alert_streams, connected, pub>>

remove_alert_stream(auv_id, request) ==
    /\ KeyOf(auv_id) \in DOMAIN alert_streams
    /\ alert_streams' = RemoveStream(alert_streams, auv_id, request)
    /\ base' = [u \in Tasks |-> Stale]
    /\ invoked' = NoCall
    /\ UNCHANGED <<telemetry_streams, connected, pub>>

remove_telemetry_stream(auv_id, request) ==
    /\ KeyOf(auv_id) \in DOMAIN telemetry_streams
    /\ telemetry_streams' = RemoveStream(telemetry_streams, auv_id, request)
    /\ base' = [u \in Tasks |-> Stale]
    /\ invoked' = NoCall
    /\ UNCHANGED <<alert_streams, connected, pub>>

\* The client of a sink goes away; it never comes back.
Disconnect(request) ==
    /\ request \in connected
    /\ connected' = connected \ {request}
    /\ base' = [u \in Tasks |-> Stale]
    /\ invoked' = NoCall
    /\ UNCHANGED <<alert_streams, telemetry_streams, pub>>

send_alert_event(t, auv_id) ==
    /\ pub[t].stage = "idle"
    /\ BeginPublish(t, "alert", auv_id)
    /\ UNCHANGED <<alert_streams, telemetry_streams, connected>>

send_telemetry_event(t, auv_id) ==
    /\ pub[t].stage = "idle"
    /\ BeginPublish(t, "telemetry", auv_id)
    /\ UNCHANGED <<alert_streams, telemetry_streams, connected>>

\* The caller of send_*_event has its return and drops the call's frame.
PublishReturn(t) ==
    /\ pub[t].stage = "returned"
    /\ pub' = [pub EXCEPT ![t] = IdleFrame]
    /\ base' = [base EXCEPT ![t] = Stale]
    /\ invoked' = NoCall
    /\ UNCHANGED <<alert_streams, telemetry_streams, connected>>

\* ------------------------------------------------- count and shutdown
\* No get_active_streams call yet.
NoCount == [outcome |-> None, alert_streams |-> 0, telemetry_streams |-> 0]

\* StreamManager.get_active_streams is a plain "def" whose body is an
\* "async with" block: Python rejects the function ('async with' outside async
\* function), so a call gives its caller an error and no counts.
get_active_streams ==
    /\ active_streams' = [outcome |-> "raise", alert_streams |-> 0,
                          telemetry_streams |-> 0]
    /\ UNCHANGED <<alert_streams, telemetry_streams, connected, pub, invoked, base>>
    /\ UNCHANGED closed

ClearStreams_AlertOnly(ch, d) == IF ch = "alert" THEN EmptyDict ELSE d

\* self.alert_streams.clear() / self.telemetry_streams.clear()
ClearStreams(ch, d) == EmptyDict

\* StreamManager.close_all_streams, called by the lifespan handler at shutdown.
close_all_streams ==
    /\ closed < MaxShutdowns
    /\ closed' = closed + 1
    /\ alert_streams' = ClearStreams("alert", alert_streams)
    /\ telemetry_streams' = ClearStreams("telemetry", telemetry_streams)
    /\ base' = [u \in Tasks |-> Stale]
    /\ invoked' = NoCall
    /\ UNCHANGED <<connected, pub>>
    /\ UNCHANGED active_streams

\* ------------------------------------------------- the lock, step by step
\* The awaits of "async with self._lock" taken apart: a task entering the block
\* awaits self._lock.acquire(), which returns once the lock is free, and leaves
\* the block through __aexit__, which releases.  Tasks calling the registry:
Callers == {"c1", "c2"}
\* A frame of a StreamManager method called by such a task.  While the method
\* stands before a block its stage names the block ("add", "remove", "close",
\* "snap" of _send_to_*_streams, "prune" for the remove_*_stream call of the
\* loop); inside the block the stage is "in_" and that name.
IdleCall == [op |-> None, chan |-> "alert", auv_id |-> None, request |-> None,
             pass |-> "all", streams |-> <<>>, stage |-> "idle", holds |-> FALSE]
WaitStages == {"add", "remove", "close", "snap", "prune"}
InBlock(stage) ==
    CASE stage = "add" -> "in_add"
      [] stage = "remove" -> "in_remove"
      [] stage = "close" -> "in_close"
      [] stage = "snap" -> "in_snap"
      [] stage = "prune" -> "in_prune"
BodyStages == {InBlock(st) : st \in WaitStages}
CallOps == {"add", "remove", "close", "publish"}
\* What the steps of such a call leave alone.
lockRest == <<pub, invoked, base, alert_rules, telemetry, alerts, now, nextId, ing,
              delivered, dedup, gen, active_streams, closed, evaluated,
              rate_limit_storage, response>>

\* A method is called: it runs up to its "async with self._lock".
call_begin(t, op, ch, auv_id, request) ==
    /\ call[t].stage = "idle"
    /\ op = "add" => RegistrySize < MaxSubs
    /\ call' = [call EXCEPT ![t] =
                  [op |-> op, chan |-> ch, auv_id |-> auv_id,
                   request |-> IF op \in {"add", "remove"} THEN request ELSE None,
                   pass |-> IF op = "publish" THEN FirstPass(auv_id) ELSE "all",
                   streams |-> <<>>,
                   stage |-> IF op = "publish" THEN "snap" ELSE op,
                   holds |-> FALSE]]
    /\ UNCHANGED <<alert_streams, telemetry_streams, connected, lock>>
    /\ UNCHANGED lockRest

CanAcquire_Always(l) == TRUE

\* asyncio.Lock.acquire returns when the lock is not locked.
CanAcquire(l) == l = None

\* "async with self._lock": acquire() returned, the task is inside the block.
lock_acquire(t) ==
    /\ call[t].stage \in WaitStages
    /\ CanAcquire(lock)
    /\ lock' = t
    /\ call' = [call EXCEPT ![t] = [@ EXCEPT !.stage = InBlock(@), !.holds = TRUE]]
    /\ UNCHANGED <<alert_streams, telemetry_streams, connected>>
    /\ UNCHANGED lockRest

HoldsAfterBlock_Loop(stage) == stage = "in_snap"

\* Whether the task still holds the lock when it is past the block it was in:
\* every block of the class ends before the next await of its method.
HoldsAfterBlock(stage) == FALSE

\* The frame once the block's statements have run on dict d.
AfterBlock(f, d) ==
    LET g == CASE f.stage = "in_snap" -> TakeSnapshot(f, d)
               [] f.stage = "in_prune" -> NextRequest(f)
               [] OTHER -> IdleCall
    IN [g EXCEPT !.holds = HoldsAfterBlock(f.stage)]

\* The dict of the frame's channel once the block's statements have run.
BlockStreams(f, d) ==
    CASE f.stage = "in_add" -> AddStream(d, f.auv_id, f.request)
      [] f.stage = "in_remove" -> RemoveStream(d, f.auv_id, f.request)
      [] f.stage = "in_prune" -> RemoveStream(d, PassKey(f), Head(f.streams))
      [] OTHER -> d

\* The statements of the block run and the block is left.
lock_body(t) ==
    /\ call[t].stage \in BodyStages
    /\ LET f == call[t]
       IN /\ call' = [call EXCEPT ![t] = AfterBlock(f, Streams(f.chan))]
          /\ IF f.stage = "in_close"
             THEN /\ alert_streams' = ClearStreams("alert", alert_streams)
                  /\ telemetry_streams' = ClearStreams("telemetry", telemetry_streams)
             ELSE SetStreams(f.chan, BlockStreams(f, Streams(f.chan)))
    /\ lock' = IF call'[t].holds THEN lock ELSE None
    /\ UNCHANGED connected
    /\ UNCHANGED lockRest

\* "if await request.is_disconnected():" has its answer: on to
\* remove_*_stream(key, request), or to send_json.
call_check(t) ==
    /\ call[t].stage = "check"
    /\ LET gone == Head(call[t].streams) \notin connected
       IN call' = [call EXCEPT ![t] =
                     IF gone THEN [@ EXCEPT !.stage = "prune"]
                     ELSE AfterDisconnectedCheck(@, FALSE)]
    /\ UNCHANGED <<alert_streams, telemetry_streams, connected, lock>>
    /\ UNCHANGED lockRest

\* "await request.send_json(event_data)" ends with outcome o: the except block
\* calls remove_*_stream(key, request).
call_send(t, o) ==
    /\ call[t].stage = "send"
    /\ call' = [call EXCEPT ![t] =
                  IF o = "raise" THEN [@ EXCEPT !.stage = "prune"]
                  ELSE AfterSendFrame(@, o)]
    /\ UNCHANGED <<alert_streams, telemetry_streams, connected, lock>>
    /\ UNCHANGED lockRest

\* send_*_event returns to its caller.
call_return(t) ==
    /\ call[t].stage = "returned"
    /\ call' = [call EXCEPT ![t] = IdleCall]
    /\ UNCHANGED <<alert_streams, telemetry_streams, connected, lock>>
    /\ UNCHANGED lockRest

\* ---------------------------------------------------- stream endpoints
\* The frame of event_generator of stream_alerts / stream_telemetry for a
\* request: its channel, the auv_id of the query, where the generator is
\* suspended ("new": not started, "yielded": at a yield, "sleep": in
\* asyncio.sleep, "closed": finished) and whether it has been cancelled (the
\* server cancels or closes the generator of a connection it has given up);
\* connected: the "connect" event was yielded.
IdleGen == [pc |-> "new", chan |-> "alert", auv_id |-> None, cancelled |-> FALSE,
            connected |-> FALSE]
GenSuspended == {"yielded", "sleep"}

\* What building the event of a yield may do.  (The module binds neither
\* "datetime" nor "asyncio": evaluating them raises NameError.)
YieldOutcomes == {"ok", "raise"}

FinallyStreams_Unfiltered(d, auv_id, request) == RemoveStream(d, None, request)

\* "finally: await stream_manager.remove_*_stream(auv_id, request)"
FinallyStreams(d, auv_id, request) == RemoveStream(d, auv_id, request)

\* The generator of request is started by the response: it registers the request
\* and yields the "connect" event, or leaves through "finally" when that raises.
gen_start(request, ch, auv_id, o) ==
    /\ gen[request].pc = "new"
    /\ LET added == AddStream(Streams(ch), auv_id, request)
       IN IF o = "raise"
          THEN /\ SetStreams(ch, FinallyStreams(added, auv_id, request))
               /\ gen' = [gen EXCEPT ![request] =
                            [@ EXCEPT !.pc = "closed", !.chan = ch, !.auv_id = auv_id]]
          ELSE /\ SetStreams(ch, added)
               /\ gen' = [gen EXCEPT ![request] =
                            [@ EXCEPT !.pc = "yielded", !.chan = ch, !.auv_id = auv_id,
                                      !.connected = TRUE]]
    /\ base' = [u \in Tasks |-> Stale]
    /\ invoked' = NoCall
    /\ UNCHANGED <<connected, pub>>

\* The generator leaves through "finally", whatever ended the loop.
GenClose(request) ==
    LET g == gen[request]
    IN /\ SetStreams(g.chan, FinallyStreams(Streams(g.chan), g.auv_id, request))
       /\ gen' = [gen EXCEPT ![request] = [@ EXCEPT !.pc = "closed"]]
       /\ base' = [u \in Tasks |-> Stale]
       /\ invoked' = NoCall

\* The generator is resumed at a yield: CancelledError or GeneratorExit is
\* thrown in when it was cancelled; otherwise "if await
\* request.is_disconnected(): break", or on to asyncio.sleep(30).
gen_check(request) ==
    /\ gen[request].pc = "yielded"
    /\ IF gen[request].cancelled \/ request \notin connected
       THEN GenClose(request)
       ELSE /\ gen' = [gen EXCEPT ![request] = [@ EXCEPT !.pc = "sleep"]]
            /\ UNCHANGED <<alert_streams, telemetry_streams, base, invoked>>
    /\ UNCHANGED <<connected, pub>>

\* asyncio.sleep(30) ends, with CancelledError when the generator was cancelled;
\* otherwise the "ping" event is yielded.
gen_sleep(request) ==
    /\ gen[request].pc = "sleep"
    /\ IF gen[request].cancelled
       THEN GenClose(request)
       ELSE /\ gen' = [gen EXCEPT ![request] = [@ EXCEPT !.pc = "yielded"]]
            /\ UNCHANGED <<alert_streams, telemetry_streams, base, invoked>>
    /\ UNCHANGED <<connected, pub>>

\* The server cancels the generator of the request.
gen_cancel(request) ==
    /\ gen[request].pc \in GenSuspended
    /\ ~gen[request].cancelled
    /\ gen' = [gen EXCEPT ![request] = [@ EXCEPT !.cancelled = TRUE]]
    /\ UNCHANGED <<alert_streams, telemetry_streams, connected, pub, invoked, base>>

\* ------------------------------------------------------------ RuleEngine
\* The values of telemetry.dict() and of any parsed JSON document: a number, a
\* string, a list, a dict or None, each under its type.
Num(n) == [t |-> "num", v |-> n]
Str(s) == [t |-> "str", v |-> s]
List(q) == [t |-> "list", v |-> q]
Dict(f) == [t |-> "dict", v |-> f]
NoneValue == [t |-> "none", v |-> 0]
\* An exception leaves the function instead of a value.
Raised == [t |-> "raise", v |-> 0]

\* path.split('.') for the paths of this model; a path without a dot is its own
\* only segment.
PathKeys(path) ==
    CASE path = "env.sediment_mg_l" -> <<"env", "sediment_mg_l">>
      [] path = "env.missing" -> <<"env", "missing">>
      [] path = "env.sediment_mg_l.x" -> <<"env", "sediment_mg_l", "x">>
      [] path = "a.b" -> <<"a", "b">>
      [] path = "a.b.c" -> <<"a", "b", "c">>
      [] path = "a.items[]" -> <<"a", "items[]">>
      [] path = "items[].id" -> <<"items[]", "id">>
      [] OTHER -> <<path>>

\* key.endswith('[]') and key[:-2] for the segments of this model.
EndsWithBrackets(key) == key = "items[]"
ArrayKey_KeepsBrackets(key) == key

ArrayKey(key) == IF key = "items[]" THEN "items" ELSE key

\* "key in text" for two strings: key is a substring of text.
IsSubstring(key, text) ==
    \/ key = text
    \/ <<key, text>> \in {<<"c", "xcx">>, <<"items", "xitemsx">>}

\* "key in current": a key of a dict, a substring of a str, an element of a
\* list; TypeError for a number and for None.
KeyIn(key, current) ==
    CASE current.t = "dict" -> IF key \in DOMAIN current.v THEN "True" ELSE "False"
      [] current.t = "str" -> IF IsSubstring(key, current.v) THEN "True" ELSE "False"
      [] current.t = "list" ->
           IF \E i \in DOMAIN current.v : current.v[i].t = "str" /\ current.v[i].v = key
           THEN "True" ELSE "False"
      [] OTHER -> "raise"

\* current[key] with a str key: the value of a dict; TypeError for a str and
\* for a list, whose indices must be integers.
Subscript(current, key) ==
    IF current.t = "dict" THEN current.v[key] ELSE Raised

\* "for key in keys:" of get_value_by_path from the value reached so far.
RECURSIVE Walk(_, _)
Walk(current, keys) ==
    IF keys = <<>> THEN current
    ELSE LET key == Head(keys)
             array_key == ArrayKey(key)
             found == KeyIn(array_key, current)
             item == Subscript(current, array_key)
         IN IF found = "raise" THEN Raised
            ELSE IF EndsWithBrackets(key)
            THEN IF found = "False" THEN List(<<>>)
                 ELSE IF item.t = "raise" THEN Raised
                 ELSE IF item.t = "list" THEN item
                 ELSE List(<<>>)
            ELSE IF found = "False" THEN NoneValue
                 ELSE IF item.t = "raise" THEN Raised
                 ELSE Walk(item, Tail(keys))

\* RuleEngine.get_value_by_path: the value at the path, None for a missing
\* segment, or the TypeError of a lookup into a value that has no keys.
get_value_by_path(obj, path) == Walk(obj, PathKeys(path))

\* telemetry.dict(): the fields of the record the rules of this model read.
TelemetryDict(telemetry_data) ==
    Dict([k \in {"auv_id", "env"} |->
            IF k = "auv_id" THEN Str(telemetry_data.auv_id)
            ELSE Dict([j \in {"sediment_mg_l"} |->
                          Num(telemetry_data.sediment_mg_l)])])

\* The resolved value as the comparison and the message see it.
\* None (measured values are >= 0).
Absent == -1
\* A value that is no number (a string, a dict): ordering it against a float
\* raises TypeError; it equals no float.
NonNumeric == -2

Resolved(value) ==
    CASE value.t = "num" -> value.v
      [] value.t = "none" -> Absent
      [] OTHER -> NonNumeric

\* RuleEngine.evaluate_threshold: the RuleEvaluationResult.
NoMessage == [path |-> "", operator |-> "", value |-> 0, current |-> 0]
NotTriggered == [triggered |-> FALSE, title |-> "", message |-> NoMessage]

Compare_StrictOnly(value, operator, threshold) ==
    CASE operator \in {">", ">="} -> value > threshold
      [] operator \in {"<", "<="} -> value < threshold
      [] operator = "==" -> value = threshold
      [] operator = "!=" -> value # threshold
      [] OTHER -> FALSE

Compare(value, operator, threshold) ==
    CASE operator = ">" -> value > threshold
      [] operator = "<" -> value < threshold
      [] operator = ">=" -> value >= threshold
      [] operator = "<=" -> value <= threshold
      [] operator = "==" -> value = threshold
      [] operator = "!=" -> value # threshold
      [] OTHER -> FALSE

\* evaluate_threshold raises: the path cannot be walked, or an ordering operator
\* meets a value that is no number.
ThresholdRaises(telemetry_data, rule_config) ==
    LET value == get_value_by_path(TelemetryDict(telemetry_data), rule_config.path)
    IN \/ value.t = "raise"
       \/ /\ Resolved(value) = NonNumeric
          /\ rule_config.operator \in {">", "<", ">=", "<="}

evaluate_threshold(telemetry_data, rule_config) ==
    LET value == Resolved(get_value_by_path(TelemetryDict(telemetry_data),
                                            rule_config.path))
    IN IF value = Absent THEN NotTriggered
       ELSE IF Compare(value, rule_config.operator, rule_config.value)
            THEN [triggered |-> TRUE, title |-> rule_config.path,
                  message |-> [path |-> rule_config.path,
                               operator |-> rule_config.operator,
                               value |-> rule_config.value, current |-> value]]
            ELSE NotTriggered

\* AlertRuleConfig(**rule.config) validates: severity matches low|medium|high and
\* dedupe_window_sec is there and >= 0 (the other required fields are there in
\* every configuration of this model).
Severities == {"low", "medium", "high"}
ParsesAsConfig(config) ==
    config.severity \in Severities /\ config.dedupe_window_sec >= 0

ActiveFrom_All(rules, k) == [i \in 1..(Len(rules) - k + 1) |-> i + k - 1]

\* select(AlertRule).where(AlertRule.active == True), as indexes into the table.
RECURSIVE ActiveFrom(_, _)
ActiveFrom(rules, k) ==
    IF k > Len(rules) THEN <<>>
    ELSE IF rules[k].active THEN <<k>> \o ActiveFrom(rules, k + 1)
         ELSE ActiveFrom(rules, k + 1)

ActiveRules(rules) == ActiveFrom(rules, 1)

ThresholdTypes_ThresholdOnly == {"threshold"}

\* The types evaluate_rules dispatches on.
ThresholdTypes == {"threshold", "battery", "dissolved_oxygen"}
RuleTypes == ThresholdTypes \cup {"proximity", "zone_dwell"}

\* The body of "for rule in rules:" for one rule: the results it appends.  The
\* except block and the unknown-type branch go on to the next rule.
EvaluateRule(telemetry_data, rule) ==
    LET config == rule.config
    IN IF ~ParsesAsConfig(config) THEN <<>>
       ELSE IF config.type \in ThresholdTypes
       THEN IF ThresholdRaises(telemetry_data, config) THEN <<>>
            ELSE LET result == evaluate_threshold(telemetry_data, config)
                 IN IF result.triggered THEN <<result>> ELSE <<>>
       \* The records of this model carry no species detections and the store no
       \* zones: evaluate_proximity and evaluate_zone_dwell do not trigger.  Any
       \* other type is unknown and skipped.
       ELSE <<>>

\* A rule that cannot be evaluated on the record: its configuration does not
\* parse, its type is unknown, or its evaluator raises.
RuleFaults(telemetry_data, rule) ==
    \/ ~ParsesAsConfig(rule.config)
    \/ rule.config.type \notin RuleTypes
    \/ /\ rule.config.type \in ThresholdTypes
       /\ ThresholdRaises(telemetry_data, rule.config)

RECURSIVE EvaluateFrom_AbortOnError(_, _, _)
EvaluateFrom_AbortOnError(telemetry_data, rules, active) ==
    IF active = <<>> THEN <<>>
    ELSE IF RuleFaults(telemetry_data, rules[Head(active)]) THEN <<>>
    ELSE EvaluateRule(telemetry_data, rules[Head(active)])
         \o EvaluateFrom_AbortOnError(telemetry_data, rules, Tail(active))

\* RuleEngine.evaluate_rules: the triggered results of the active rules, in load
\* order.
RECURSIVE EvaluateFrom(_, _, _)
EvaluateFrom(telemetry_data, rules, active) ==
    IF active = <<>> THEN <<>>
    ELSE EvaluateRule(telemetry_data, rules[Head(active)])
         \o EvaluateFrom(telemetry_data, rules, Tail(active))

evaluate_rules(telemetry_data, rules) ==
    EvaluateFrom(telemetry_data, rules, ActiveRules(rules))

DedupRows_ShortWindow(auv_id, rule_id, dedupe_window_sec, rows, utcnow) ==
    {a \in rows : /\ a.auv_id = auv_id
                  /\ a.rule_id = rule_id
                  /\ a.created_at >= utcnow - dedupe_window_sec + 1}

\* The rows the statement of check_deduplication selects from the rows the
\* session sees.
DedupRows(auv_id, rule_id, dedupe_window_sec, rows, utcnow) ==
    LET window_start == utcnow - dedupe_window_sec
    IN {a \in rows : /\ a.auv_id = auv_id
                     /\ a.rule_id = rule_id
                     /\ a.created_at >= window_start}

check_deduplication_StrictWindow(auv_id, rule_id, dedupe_window_sec, rows, utcnow) ==
    LET found == {a \in rows : /\ a.auv_id = auv_id
                               /\ a.rule_id = rule_id
                               /\ a.created_at > utcnow - dedupe_window_sec}
    IN IF Cardinality(found) > 1 THEN "raise"
       ELSE IF found = {} THEN "True" ELSE "False"

\* RuleEngine.check_deduplication: scalar_one_or_none() gives None for no row,
\* the row for one, and raises MultipleResultsFound for more.
check_deduplication(auv_id, rule_id, dedupe_window_sec, rows, utcnow) ==
    LET found == DedupRows(auv_id, rule_id, dedupe_window_sec, rows, utcnow)
    IN IF Cardinality(found) > 1 THEN "raise"
       ELSE IF found = {} THEN "True" ELSE "False"

\* RuleEngine.evaluate_proximity.
TriggeredDetections_Inclusive(species_detections, value) ==
    SelectSeq(species_detections, LAMBDA detection : detection.distance_m <= value)

\* [detection for detection in species_detections if detection.distance_m < value]
TriggeredDetections(species_detections, value) ==
    SelectSeq(species_detections, LAMBDA detection : detection.distance_m < value)

\* min(triggered_detections, key=lambda x: x.distance_m): the first of the
\* detections of least distance.
RECURSIVE Closest(_)
Closest(triggered_detections) ==
    IF Len(triggered_detections) = 1 THEN Head(triggered_detections)
    ELSE LET rest == Closest(Tail(triggered_detections))
         IN IF Head(triggered_detections).distance_m <= rest.distance_m
            THEN Head(triggered_detections) ELSE rest

evaluate_proximity(telemetry_data, rule_config) ==
    LET species_detections == telemetry_data.species_detections
        triggered_detections == TriggeredDetections(species_detections,
                                                    rule_config.value)
    IN IF species_detections = <<>> THEN NotTriggered
       ELSE IF triggered_detections # <<>>
       THEN LET closest == Closest(triggered_detections)
            IN [triggered |-> TRUE, title |-> "Protected species proximity alert",
                message |-> [name |-> closest.name, distance_m |-> closest.distance_m,
                             value |-> rule_config.value,
                             lat |-> telemetry_data.position.lat,
                             lng |-> telemetry_data.position.lng]]
       ELSE NotTriggered

\* RuleEngine.evaluate_zone_dwell.
\* Zone.geom as json.loads reads it: text that parses or not; the "type" of the
\* document; its "coordinates", a list of rings of [lng, lat] vertices.
PolygonGeom(ring) == [text |-> "json", type |-> "Polygon", coordinates |-> <<ring>>]
\* max_minutes of a rule that has none (max_minutes is >= 0).
NoMinutes == -1

\* Polygon(coordinates) closes a ring that is left open.
ClosedRing(ring) ==
    IF ring[1] = ring[Len(ring)] THEN ring ELSE Append(ring, ring[1])

\* The point lies on the segment from a to b.
OnSegment(p, a, b) ==
    /\ (b.x - a.x) * (p.y - a.y) = (b.y - a.y) * (p.x - a.x)
    /\ (p.x - a.x) * (p.x - b.x) <= 0
    /\ (p.y - a.y) * (p.y - b.y) <= 0

\* The ray from the point towards larger x crosses the segment from a to b.
RayCrosses(p, a, b) ==
    /\ (a.y > p.y) # (b.y > p.y)
    /\ IF b.y > a.y
       THEN (p.x - a.x) * (b.y - a.y) < (p.y - a.y) * (b.x - a.x)
       ELSE (p.x - a.x) * (b.y - a.y) > (p.y - a.y) * (b.x - a.x)

\* polygon.contains(point) for the polygon of a closed ring: the point is in the
\* interior, not on the boundary.
Contains(ring, p) ==
    LET edges == 1..(Len(ring) - 1)
    IN /\ \A i \in edges : ~OnSegment(p, ring[i], ring[i + 1])
       /\ Cardinality({i \in edges : RayCrosses(p, ring[i], ring[i + 1])}) % 2 = 1

\* The body of "try:" for one zone: the zone's polygon contains the point.  Text
\* that does not parse, a Polygon without rings and a ring of fewer than three
\* vertices raise, which "except Exception: continue" turns into a skip; a
\* geometry of another type is passed over.
ZoneContains(zone, point) ==
    /\ zone.geom.text = "json"
    /\ zone.geom.type = "Polygon"
    /\ zone.geom.coordinates # <<>>
    /\ Len(zone.geom.coordinates[1]) >= 3
    /\ Contains(ClosedRing(zone.geom.coordinates[1]), point)

\* "for zone in zones:" up to its first return.
FirstContaining_Last(zones, point) ==
    LET found == SelectSeq(zones, LAMBDA zone : ZoneContains(zone, point))
    IN IF found = <<>> THEN <<>> ELSE <<found[Len(found)]>>

FirstContaining(zones, point) ==
    LET found == SelectSeq(zones, LAMBDA zone : ZoneContains(zone, point))
    IN IF found = <<>> THEN <<>> ELSE <<Head(found)>>

\* zones: the rows of table zones in load order, which the statement filters by
\* zone_type.
evaluate_zone_dwell(telemetry_data, rule_config, zones) ==
    LET selected == SelectSeq(zones,
                              LAMBDA zone : zone.zone_type = rule_config.zone_type)
        point == [x |-> telemetry_data.position.lng, y |-> telemetry_data.position.lat]
        first == FirstContaining(selected, point)
        dwell_minutes == IF rule_config.max_minutes \in {NoMinutes, 0} THEN 60
                         ELSE rule_config.max_minutes
    IN IF ~Truthy(rule_config.zone_type) THEN NotTriggered
       ELSE IF first # <<>>
       THEN [triggered |-> TRUE, title |-> "Zone dwell time exceeded",
             message |-> [name |-> first[1].name, dwell_minutes |-> dwell_minutes,
                          lat |-> telemetry_data.position.lat,
                          lng |-> telemetry_data.position.lng]]
       ELSE NotTriggered

\* ----------------------------------------------- the evaluators, called
\* No evaluator was called yet.
NoEvaluation == [fn |-> None, outcome |-> None]

\* Documents get_value_by_path is called on, in a list: {"a": {"b": leaf}} for
\* the leaves 123, "xcx", "xyz", ["c"], [1], None and {"c": 7}, then {"a": {}},
\* {"items": [1]}, {"items": 3}, {"items": [{"id": 1}, {"id": 2}]} and {"a": 3}.
Leaves == <<Num(123), Str("xcx"), Str("xyz"), List(<<Str("c")>>), List(<<Num(1)>>),
            NoneValue, Dict([k \in {"c"} |-> Num(7)])>>
PathObjects ==
    [i \in 1..Len(Leaves) |-> Dict([k \in {"a"} |-> Dict([j \in {"b"} |-> Leaves[i]])])]
    \o <<Dict([k \in {"a"} |-> Dict(<<>>)]),
         Dict([k \in {"items"} |-> List(<<Num(1)>>)]),
         Dict([k \in {"items"} |-> Num(3)]),
         Dict([k \in {"items"} |->
                  List(<<Dict([j \in {"id"} |-> Num(1)]),
                         Dict([j \in {"id"} |-> Num(2)])>>)]),
         Dict([k \in {"a"} |-> Num(3)])>>
ObjectPaths == {"a", "a.b", "a.b.c", "items[].id", "a.items[]", "missing"}

\* The variables an evaluator call leaves alone.
engineRest == <<alert_streams, telemetry_streams, connected, pub, invoked, base,
                alert_rules, telemetry, alerts, now, nextId, ing, delivered, dedup,
                lock, call, gen, active_streams, closed, rate_limit_storage,
                response>>

\* A call of an evaluator that has not run yet, and the outcome of one that has.
Called(fn) == evaluated.fn = fn /\ evaluated.outcome = "called"
Outcome(raises) == IF raises THEN "raise" ELSE "return"

\* RuleEngine.get_value_by_path(obj, path) runs.
get_value_by_path_call ==
    /\ Called("get_value_by_path")
    /\ LET result == get_value_by_path(evaluated.obj, evaluated.path)
       IN evaluated' = [evaluated EXCEPT !.outcome = Outcome(result.t = "raise"),
                                         !.result = result]
    /\ UNCHANGED engineRest

\* The telemetry records and rule configurations the evaluators are called on.
\* A TelemetryCreate: the fields the evaluators read.
BaseTelemetry ==
    [auv_id |-> "AUV-001", sediment_mg_l |-> 30,
     position |-> [lat |-> 1, lng |-> 1], species_detections |-> <<>>]
\* An AlertRuleConfig: the fields the evaluators read.
BaseConfig ==
    [type |-> "threshold", path |-> "env.sediment_mg_l", operator |-> ">",
     value |-> 30, zone_type |-> None, max_minutes |-> NoMinutes]

Operators == {">", "<", ">=", "<=", "==", "!="}
\* operator is any str: one that evaluate_threshold does not know.
ConfigOperators == Operators \cup {"=>"}
ThresholdPaths == {"env.sediment_mg_l", "env.missing", "env.sediment_mg_l.x",
                   "auv_id", "missing"}
Measured == {10, 30, 50}
Thresholds == {20, 30}

\* RuleEngine.evaluate_threshold(telemetry, rule_config) runs.
evaluate_threshold_call ==
    /\ Called("evaluate_threshold")
    /\ LET raises == ThresholdRaises(evaluated.telemetry, evaluated.rule_config)
       IN evaluated' =
             [evaluated EXCEPT
                 !.outcome = Outcome(raises),
                 !.result = IF raises THEN NotTriggered
                            ELSE evaluate_threshold(evaluated.telemetry,
                                                    evaluated.rule_config)]
    /\ UNCHANGED engineRest

\* The species detections a record carries: up to MaxDetections of them.
SpeciesDetections == [name : {"Benthic Octopod", "Whale"}, distance_m : {10, 30, 50}]
DetectionLists == UNION {[1..n -> SpeciesDetections] : n \in 0..MaxDetections}
ProximityValues == {30, 50}
ProximityPaths == {"species_detections[].distance_m", "auv_id"}

\* RuleEngine.evaluate_proximity(telemetry, rule_config) runs.
evaluate_proximity_call ==
    /\ Called("evaluate_proximity")
    /\ evaluated' = [evaluated EXCEPT
                        !.outcome = "return",
                        !.result = evaluate_proximity(evaluated.telemetry,
                                                      evaluated.rule_config)]
    /\ UNCHANGED engineRest

\* Zone geometries: two squares, one inside the other; a triangle left open; a
\* Point; text that is no JSON; a Polygon without rings; a ring of two vertices.
Vertex(x, y) == [x |-> x, y |-> y]
SmallSquare == <<Vertex(0, 0), Vertex(2, 0), Vertex(2, 2), Vertex(0, 2), Vertex(0, 0)>>
LargeSquare == <<Vertex(0, 0), Vertex(4, 0), Vertex(4, 4), Vertex(0, 4), Vertex(0, 0)>>
OpenTriangle == <<Vertex(0, 0), Vertex(4, 0), Vertex(4, 4)>>
ZoneGeoms ==
    {PolygonGeom(SmallSquare), PolygonGeom(LargeSquare), PolygonGeom(OpenTriangle),
     [text |-> "json", type |-> "Point", coordinates |-> <<>>],
     [text |-> "bad", type |-> None, coordinates |-> <<>>],
     [text |-> "json", type |-> "Polygon", coordinates |-> <<>>],
     PolygonGeom(<<Vertex(0, 0), Vertex(4, 4)>>)}
ZoneNames == <<"Zone A", "Zone B", "Zone C", "Zone D">>
ZoneTypes == {"sensitive", "restricted"}
\* Table zones: up to MaxRows rows in load order, each with its own name.
ZoneTables ==
    UNION {{[i \in 1..n |-> [name |-> ZoneNames[i], zone_type |-> types[i],
                              geom |-> geoms[i]]] :
               types \in [1..n -> ZoneTypes], geoms \in [1..n -> ZoneGeoms]} :
           n \in 0..MaxRows}
Positions == {[lat |-> 1, lng |-> 1], [lat |-> 1, lng |-> 2], [lat |-> 1, lng |-> 3],
              [lat |-> 3, lng |-> 1], [lat |-> 5, lng |-> 5]}

\* RuleEngine.evaluate_zone_dwell(telemetry, rule_config, session) runs.
evaluate_zone_dwell_call ==
    /\ Called("evaluate_zone_dwell")
    /\ evaluated' = [evaluated EXCEPT
                        !.outcome = "return",
                        !.result = evaluate_zone_dwell(evaluated.telemetry,
                                                       evaluated.rule_config,
                                                       evaluated.zones)]
    /\ UNCHANGED engineRest

\* ------------------------------------------------- RateLimitMiddleware
\* request.client.host of the requests.
Clients == {"127.0.0.1", "192.168.1.1"}
NoResponse == [client |-> None, status |-> 0,
               accepted |-> [c \in Clients |-> [t \in 0..MaxTime |-> 0]]]

KeptTimestamps_Inclusive(timestamps, current_time) ==
    SelectSeq(timestamps,
              LAMBDA timestamp : current_time - timestamp <= window_seconds)

\* [timestamp for timestamp in rate_limit_storage[client_ip]
\*  if current_time - timestamp < self.window_seconds]
KeptTimestamps(timestamps, current_time) ==
    SelectSeq(timestamps,
              LAMBDA timestamp : current_time - timestamp < window_seconds)

\* The variables a RateLimitMiddleware call leaves alone.
limitRest == <<alert_streams, telemetry_streams, connected, pub, invoked, base,
               alert_rules, telemetry, alerts, now, nextId, ing, delivered, dedup,
               lock, call, gen, active_streams, closed, evaluated>>

\* RateLimitMiddleware.__call__ for a request of client_ip at time.time(): old
\* entries are cleaned; at the limit HTTPException 429 is raised; otherwise the
\* request is recorded and passed on (status 200 stands for that).
rate_limit_call(client_ip) ==
    LET current_time == now
        kept == IF client_ip \in DOMAIN rate_limit_storage
                THEN KeptTimestamps(rate_limit_storage[client_ip], current_time)
                ELSE <<>>
    IN /\ IF Len(kept) >= max_requests
          THEN /\ rate_limit_storage' = Put(rate_limit_storage, client_ip, kept)
               /\ response' = [response EXCEPT !.client = client_ip, !.status = 429]
          ELSE /\ rate_limit_storage' =
                     Put(rate_limit_storage, client_ip, Append(kept, current_time))
               /\ response' = [response EXCEPT
                                  !.client = client_ip, !.status = 200,
                                  !.accepted[client_ip][current_time] = @ + 1]
       /\ UNCHANGED limitRest

\* ------------------------------------------------------ ingest_telemetry
\* The frame of one ingest_telemetry call and its database session.
\*   flushed: rows this session inserted in its open transaction
\*   new:     Alert objects added to the session and not yet flushed
\*   active_seen: the ids of the rules that were active at some moment of the call
\*   events:  the AlertEvent and TelemetryEvent objects built, in order
IdleIngest ==
    [pc |-> "idle", data |-> [auv_id |-> None, sediment_mg_l |-> 0],
     telemetry_id |-> 0, rule_results |-> <<>>, rules |-> <<>>,
     alerts_generated |-> 0, new |-> <<>>, flushed |-> {},
     published |-> <<>>, served |-> 0, cause |-> None, active_seen |-> {},
     events |-> <<>>]

\* The ids of the rules with active = true.
ActiveIds(rules) == {rules[k].id : k \in {i \in 1..Len(rules) : rules[i].active}}

\* What an awaited database call may do.
DbOutcomes == {"ok", "raise"}

\* The session flushes its new Alert objects: each gets its id and created_at.
RECURSIVE FlushRows(_, _, _)
FlushRows(new, id, utcnow) ==
    IF new = <<>> THEN {}
    ELSE {[Head(new) EXCEPT !.id = id, !.created_at = utcnow]}
         \cup FlushRows(Tail(new), id + 1, utcnow)

Autoflush(f, id, utcnow) ==
    [f EXCEPT !.flushed = @ \cup FlushRows(f.new, id, utcnow), !.new = <<>>]

\* What config.get("dedupe_window_sec") gives when the key is missing: None
\* (a stored window is >= 0).
NoWindow == -1

HasDedupeWindow_NoneTruthy(config) == config.dedupe_window_sec # 0

HasDedupeWindow_ZeroTruthy(config) == config.dedupe_window_sec # NoWindow

\* "if config.get("dedupe_window_sec"):" None and 0 are falsy.
HasDedupeWindow(config) ==
    config.dedupe_window_sec # NoWindow /\ config.dedupe_window_sec # 0

\* "for result in rule_results: ... for rule in rules.scalars():" runs on without
\* awaiting until a rule with a dedupe window is at hand (pc "dedup"), a new
\* select is due for the next result ("select") or the results are used up
\* ("commit").
RECURSIVE NextRule(_, _)
NextRule(f, rules) ==
    IF f.rules = <<>>
    THEN IF Len(f.rule_results) <= 1
         THEN [f EXCEPT !.rule_results = <<>>, !.pc = "commit"]
         ELSE [f EXCEPT !.rule_results = Tail(@), !.pc = "select"]
    ELSE IF HasDedupeWindow(rules[Head(f.rules)].config)
         THEN [f EXCEPT !.pc = "dedup"]
         ELSE NextRule([f EXCEPT !.rules = Tail(@)], rules)

\* "except Exception": session.rollback() and HTTP 500.
Rollback(f, why) ==
    [f EXCEPT !.pc = "failed", !.new = <<>>, !.flushed = {}, !.cause = why,
              !.rule_results = <<>>, !.rules = <<>>]

\* A request arrives: the handler builds the Telemetry row and adds it.
ingest_begin(t, telemetry_data) ==
    /\ ing[t].pc \in {"idle", "done", "failed"}
    /\ ing[t].served < MaxIngest
    /\ ing' = [ing EXCEPT ![t] = [IdleIngest EXCEPT !.pc = "flush",
                                                    !.data = telemetry_data,
                                                    !.served = ing[t].served + 1,
                                                    !.active_seen = ActiveIds(alert_rules)]]
    /\ UNCHANGED <<alert_rules, telemetry, alerts, now, nextId, delivered, dedup>>
    /\ UNCHANGED auxVars
    /\ UNCHANGED regVars

\* await session.flush(): the row gets its id.
ingest_flush(t) ==
    /\ ing[t].pc = "flush"
    /\ \E o \in DbOutcomes :
         IF o = "raise"
         THEN ing' = [ing EXCEPT ![t] = Rollback(@, "flush")] /\ UNCHANGED nextId
         ELSE /\ ing' = [ing EXCEPT ![t] = [@ EXCEPT !.telemetry_id = nextId, !.pc = "eval"]]
              /\ nextId' = nextId + 1
    /\ UNCHANGED <<alert_rules, telemetry, alerts, now, delivered, dedup>>
    /\ UNCHANGED auxVars
    /\ UNCHANGED regVars

\* rule_results = await RuleEngine.evaluate_rules(...); the loop over the results
\* starts.
AfterEvaluate_PublishFirst(f, rules) ==
    LET results == evaluate_rules(f.data, rules)
    IN IF results = <<>> THEN [f EXCEPT !.published = <<"telemetry">>, !.pc = "commit"]
       ELSE [f EXCEPT !.published = <<"telemetry">>, !.rule_results = results,
                      !.pc = "select"]

AfterEvaluate(f, rules) ==
    LET results == evaluate_rules(f.data, rules)
    IN IF results = <<>> THEN [f EXCEPT !.pc = "commit"]
       ELSE [f EXCEPT !.rule_results = results, !.pc = "select"]

ingest_evaluate(t) ==
    /\ ing[t].pc = "eval"
    /\ \E o \in DbOutcomes :
         ing' = [ing EXCEPT ![t] = IF o = "raise" THEN Rollback(@, "evaluate")
                                   ELSE AfterEvaluate(@, alert_rules)]
    /\ UNCHANGED <<alert_rules, telemetry, alerts, now, nextId, delivered, dedup>>
    /\ UNCHANGED auxVars
    /\ UNCHANGED regVars

\* rules = await session.execute(select(AlertRule).where(active)), for the
\* result at hand; the session flushes first.
ingest_select(t) ==
    /\ ing[t].pc = "select"
    /\ \E o \in DbOutcomes :
         LET f == Autoflush(ing[t], nextId, now)
         IN ing' = [ing EXCEPT ![t] =
                      IF o = "raise" THEN Rollback(f, "select")
                      ELSE NextRule([f EXCEPT !.rules = ActiveRules(alert_rules)],
                                    alert_rules)]
    /\ nextId' = nextId + Len(ing[t].new)
    /\ UNCHANGED <<alert_rules, telemetry, alerts, now, delivered, dedup>>
    /\ UNCHANGED auxVars
    /\ UNCHANGED regVars

\* The Alert built from the rule and the result at hand; id and created_at are
\* column defaults, set when the row is flushed.
NewAlert(f, rule) ==
    [id |-> 0, created_at |-> 0, auv_id |-> f.data.auv_id, rule_id |-> rule.id,
     severity |-> rule.config.severity,
     title |-> Head(f.rule_results).title,
     message |-> Head(f.rule_results).message,
     payload |-> f.data, telemetry_id |-> f.telemetry_id]

\* AlertEvent(id=str(alert.id), ...) of an Alert object: the id is read from the
\* object as it is, unassigned (None, here 0) while the object is not flushed.
AlertEvent(alert) ==
    [chan |-> "alert", id |-> alert.id, auv_id |-> alert.auv_id, title |-> alert.title]

AfterDedup_NoCount(f, rule, can_create) ==
    IF can_create
    THEN [f EXCEPT !.new = Append(@, NewAlert(f, rule)),
                   !.published = Append(@, "alert"),
                   !.events = Append(@, AlertEvent(NewAlert(f, rule))),
                   !.pc = "publish_alert"]
    ELSE f

\* The frame after check_deduplication answered can_create for the rule at hand:
\* the Alert is added and counted, and send_alert_event is called.
AfterDedup(f, rule, can_create) ==
    IF can_create
    THEN [f EXCEPT !.new = Append(@, NewAlert(f, rule)),
                   !.alerts_generated = @ + 1,
                   !.published = Append(@, "alert"),
                   !.events = Append(@, AlertEvent(NewAlert(f, rule))),
                   !.pc = "publish_alert"]
    ELSE f

VisibleRows_Uncommitted(f) ==
    alerts \cup f.flushed \cup UNION {ing[u].flushed : u \in Handlers}

\* The rows of table alerts a statement of the session of frame f sees: the
\* committed ones and the ones the session itself has flushed.
VisibleRows(f) == alerts \cup f.flushed

\* can_create = await RuleEngine.check_deduplication(...): the session flushes
\* first, then the statement runs.
ingest_dedup(t) ==
    /\ ing[t].pc = "dedup"
    /\ \E o \in DbOutcomes :
         LET rule == alert_rules[Head(ing[t].rules)]
             f == Autoflush(ing[t], nextId, now)
             answer == check_deduplication(f.data.auv_id, rule.id,
                                           rule.config.dedupe_window_sec,
                                           VisibleRows(f), now)
         IN /\ nextId' = nextId + Len(ing[t].new)
            /\ IF o = "raise"
               THEN /\ ing' = [ing EXCEPT ![t] = Rollback(f, "dedup")]
                    /\ UNCHANGED <<pub, base>>
               ELSE /\ IF answer = "raise"
                       THEN /\ ing' = [ing EXCEPT ![t] = Rollback(f, "multiple")]
                            /\ UNCHANGED <<pub, base>>
                       ELSE IF answer = "True"
                       THEN /\ ing' = [ing EXCEPT ![t] = AfterDedup(f, rule, TRUE)]
                            /\ BeginPublish(t, "alert", f.data.auv_id)
                       ELSE /\ ing' = [ing EXCEPT ![t] =
                                         NextRule([f EXCEPT !.rules = Tail(@)], alert_rules)]
                            /\ UNCHANGED <<pub, base>>
    /\ invoked' = NoCall
    /\ UNCHANGED <<alert_rules, telemetry, alerts, now, delivered, dedup>>
    /\ UNCHANGED auxVars
    /\ UNCHANGED <<alert_streams, telemetry_streams, connected>>

\* send_alert_event returned: the loop over the rules goes on.
ingest_alert_sent(t) ==
    /\ ing[t].pc = "publish_alert"
    /\ pub[t].stage = "returned"
    /\ pub' = [pub EXCEPT ![t] = IdleFrame]
    /\ base' = [base EXCEPT ![t] = Stale]
    /\ invoked' = NoCall
    /\ ing' = [ing EXCEPT ![t] = NextRule([@ EXCEPT !.rules = Tail(@)], alert_rules)]
    /\ UNCHANGED <<alert_rules, telemetry, alerts, now, nextId, delivered, dedup>>
    /\ UNCHANGED auxVars
    /\ UNCHANGED <<alert_streams, telemetry_streams, connected>>

\* TelemetryEvent(id=str(telemetry_record.id), ...) of the flushed record.
TelemetryEvent(f) ==
    [chan |-> "telemetry", id |-> f.telemetry_id, auv_id |-> f.data.auv_id,
     title |-> ""]

AfterCommit_IgnoreFailure(f, o) ==
    [f EXCEPT !.new = <<>>, !.flushed = {},
              !.published = Append(@, "telemetry"),
              !.events = Append(@, TelemetryEvent(f)), !.pc = "publish_telemetry"]

\* The frame after session.commit() ended with outcome o: on to
\* send_telemetry_event, or into the except block.
AfterCommit(f, o) ==
    IF o = "raise" THEN Rollback(f, "commit")
    ELSE [f EXCEPT !.new = <<>>, !.flushed = {},
                   !.published = Append(@, "telemetry"),
                   !.events = Append(@, TelemetryEvent(f)), !.pc = "publish_telemetry"]

CommitTable_Partial(table, rows, o) == table \cup rows

\* A table after the transaction holding rows ended its commit with outcome o.
CommitTable(table, rows, o) ==
    IF o = "ok" THEN table \cup rows ELSE table

\* await session.commit(): the session flushes and its rows become the tables'.
ingest_commit(t) ==
    /\ ing[t].pc = "commit"
    /\ \E o \in DbOutcomes :
         LET f == Autoflush(ing[t], nextId, now)
         IN /\ nextId' = nextId + Len(ing[t].new)
            /\ telemetry' = CommitTable(telemetry, {f.telemetry_id}, o)
            /\ alerts' = CommitTable(alerts, f.flushed, o)
            /\ ing' = [ing EXCEPT ![t] = AfterCommit(f, o)]
            /\ IF ing'[t].pc = "publish_telemetry"
               THEN BeginPublish(t, "telemetry", f.data.auv_id)
               ELSE UNCHANGED <<pub, base>> /\ invoked' = NoCall
    /\ UNCHANGED <<alert_rules, now, delivered, dedup>>
    /\ UNCHANGED auxVars
    /\ UNCHANGED <<alert_streams, telemetry_streams, connected>>

\* send_telemetry_event returned: the handler returns TelemetryIngestResponse.
ingest_return(t) ==
    /\ ing[t].pc = "publish_telemetry"
    /\ pub[t].stage = "returned"
    /\ pub' = [pub EXCEPT ![t] = IdleFrame]
    /\ base' = [base EXCEPT ![t] = Stale]
    /\ invoked' = NoCall
    /\ ing' = [ing EXCEPT ![t] = [@ EXCEPT !.pc = "done"]]
    /\ UNCHANGED <<alert_rules, telemetry, alerts, now, nextId, delivered, dedup>>
    /\ UNCHANGED auxVars
    /\ UNCHANGED <<alert_streams, telemetry_streams, connected>>

\* A step of the publish call an ingestion is in; a send_json that returns has
\* delivered the event to the sink.
Delivery(t, o) ==
    IF o = "ok"
    THEN {[chan |-> pub[t].chan, telemetry_id |-> ing[t].telemetry_id,
           sink |-> Head(pub[t].streams)]}
    ELSE {}

ingest_publish_step(t) ==
    /\ ing[t].pc \in {"publish_alert", "publish_telemetry"}
    /\ \/ send_to_streams_snapshot(t) /\ UNCHANGED delivered
       \/ send_to_streams_check(t) /\ UNCHANGED delivered
       \/ \E o \in SendOutcomes :
            send_to_streams_send(t, o) /\ delivered' = delivered \cup Delivery(t, o)
    /\ UNCHANGED <<alert_rules, telemetry, alerts, now, nextId, ing, dedup>>
    /\ UNCHANGED auxVars

\* Configuration management sets the active flag of a rule (column
\* alert_rules.active) in a transaction of its own.
set_rule_active(k, isActive) ==
    /\ alert_rules[k].active # isActive
    /\ alert_rules' = [alert_rules EXCEPT ![k].active = isActive]
    /\ ing' = [t \in Handlers |->
                IF isActive /\ ing[t].pc \notin {"idle", "done", "failed"}
                THEN [ing[t] EXCEPT !.active_seen = @ \cup {alert_rules[k].id}]
                ELSE ing[t]]
    /\ UNCHANGED <<telemetry, alerts, now, nextId, delivered, dedup>>
    /\ UNCHANGED auxVars
    /\ UNCHANGED regVars

\* Time passes.
Tick ==
    /\ now < MaxTime
    /\ now' = now + 1
    /\ UNCHANGED <<alert_rules, telemetry, alerts, nextId, ing, delivered, dedup>>
    /\ UNCHANGED auxVars
    /\ UNCHANGED regVars

\* ------------------------------------------------------- specifications
NoDedup == [auv_id |-> None, rule_id |-> None, window |-> 0, rows |-> {},
            utcnow |-> 0, result |-> None]

\* The state of what a specification leaves alone.
InitAuxRest ==
    /\ lock = None
    /\ call = [t \in Callers |-> IdleCall]
    /\ gen = [r \in Sinks |-> IdleGen]
    /\ active_streams = NoCount
    /\ closed = 0
    /\ rate_limit_storage = EmptyDict
    /\ response = NoResponse

InitAux == InitAuxRest /\ evaluated = NoEvaluation

InitDb ==
    /\ telemetry = {}
    /\ alerts = {}
    /\ now = 0
    /\ nextId = 1
    /\ ing = [t \in Handlers |-> IdleIngest]
    /\ delivered = {}
    /\ dedup = NoDedup

InitRegistry ==
    /\ alert_streams = EmptyDict
    /\ telemetry_streams = EmptyDict
    /\ connected = Sinks
    /\ pub = [t \in Tasks |-> IdleFrame]
    /\ invoked = NoCall
    /\ base = [t \in Tasks |-> Stale]
    /\ alert_rules = <<>>
    /\ InitDb
    /\ InitAux

NextRegistry ==
    /\ \/ \E a \in SubscribeArgs, r \in Sinks : add_alert_stream(a, r)
       \/ \E a \in SubscribeArgs, r \in Sinks : add_telemetry_stream(a, r)
       \/ \E a \in SubscribeArgs, r \in Sinks : remove_alert_stream(a, r)
       \/ \E a \in SubscribeArgs, r \in Sinks : remove_telemetry_stream(a, r)
       \/ \E r \in Sinks : Disconnect(r)
       \/ \E t \in Publishers, a \in PublishArgs : send_alert_event(t, a)
       \/ \E t \in Publishers, a \in PublishArgs : send_telemetry_event(t, a)
       \/ \E t \in Publishers : PublishReturn(t)
       \/ \E t \in Publishers : send_to_streams_snapshot(t)
       \/ \E t \in Publishers : send_to_streams_check(t)
       \/ \E t \in Publishers, o \in SendOutcomes : send_to_streams_send(t, o)
    /\ UNCHANGED dbVars
    /\ UNCHANGED auxVars

SpecRegistry == InitRegistry /\ [][NextRegistry]_vars

\* Rule configurations as stored in alert_rules.config.
Rule(id, threshold, window, isActive) ==
    [id |-> id, active |-> isActive,
     config |-> [id |-> id, type |-> "threshold", path |-> "env.sediment_mg_l",
                 operator |-> ">",
                 value |-> threshold, severity |-> "high",
                 dedupe_window_sec |-> window]]

RuleTables ==
    { <<Rule("RULE-1", 25, 2, TRUE)>>,
      <<Rule("RULE-1", 25, 2, TRUE), Rule("RULE-2", 5, 1, TRUE)>>,
      <<Rule("RULE-1", 25, 2, TRUE), Rule("RULE-2", 5, NoWindow, TRUE)>> }

TelemetryInputs == [auv_id : {"AUV-001"}, sediment_mg_l : {10, 30}]

\* Registries the stream endpoints have built before the ingestions start.
StartRegistries ==
    { [alert |-> EmptyDict, telemetry |-> EmptyDict],
      [alert |-> Put(Put(EmptyDict, "AUV-001", <<"r1">>), ALL, <<"r2">>),
       telemetry |-> Put(EmptyDict, ALL, <<"r1">>)],
      [alert |-> Put(EmptyDict, "AUV-001", <<"r1", "r2">>),
       telemetry |-> Put(EmptyDict, "AUV-001", <<"r2">>)] }

Init ==
    /\ \E reg \in StartRegistries :
         alert_streams = reg.alert /\ telemetry_streams = reg.telemetry
    /\ connected = Sinks
    /\ pub = [t \in Tasks |-> IdleFrame]
    /\ invoked = NoCall
    /\ base = [t \in Tasks |-> Stale]
    /\ alert_rules \in RuleTables
    /\ InitDb
    /\ InitAux

Next ==
    \/ \E t \in Ingestors, d \in TelemetryInputs : ingest_begin(t, d)
    \/ \E t \in Ingestors : ingest_flush(t)
    \/ \E t \in Ingestors : ingest_evaluate(t)
    \/ \E t \in Ingestors : ingest_select(t)
    \/ \E t \in Ingestors : ingest_dedup(t)
    \/ \E t \in Ingestors : ingest_alert_sent(t)
    \/ \E t \in Ingestors : ingest_commit(t)
    \/ \E t \in Ingestors : ingest_return(t)
    \/ \E t \in Ingestors : ingest_publish_step(t)
    \/ \E r \in Sinks : Disconnect(r) /\ UNCHANGED dbVars /\ UNCHANGED auxVars
    \/ Tick

Spec == Init /\ [][Next]_vars

\* The steps of the handler of task t after the request arrived.
Handler(t) ==
    \/ ingest_flush(t)
    \/ ingest_evaluate(t)
    \/ ingest_select(t)
    \/ ingest_dedup(t)
    \/ ingest_alert_sent(t)
    \/ ingest_commit(t)
    \/ ingest_return(t)
    \/ ingest_publish_step(t)

\* The event loop runs every handler that can take a step, and the database
\* answers every call; nothing makes a sink's send_json complete.
FairSpec == Spec /\ \A t \in Ingestors : WF_vars(Handler(t))

\* Ingestions with no subscriber connected: two handlers, each with its own
\* database session.
QuietTables ==
    { <<Rule("RULE-1", 25, 2, TRUE)>>,
      <<Rule("RULE-1", 25, 2, TRUE), Rule("RULE-2", 5, 1, TRUE)>> }

InitQuiet ==
    /\ alert_streams = EmptyDict
    /\ telemetry_streams = EmptyDict
    /\ connected = Sinks
    /\ pub = [t \in Tasks |-> IdleFrame]
    /\ invoked = NoCall
    /\ base = [t \in Tasks |-> Stale]
    /\ alert_rules \in QuietTables
    /\ InitDb
    /\ InitAux

\* Handler t has served no request yet: in the specifications below each handler
\* serves one.
Fresh(t) == ing[t].pc = "idle"

\* No ingest_telemetry call is in progress but possibly that of t.
NoOtherRunning(t) ==
    \A u \in Handlers \ {t} : ing[u].pc \in {"idle", "done", "failed"}

\* The requests arrive one after the other has been answered.
NextSequential ==
    \/ \E t \in Handlers, d \in TelemetryInputs :
          Fresh(t) /\ NoOtherRunning(t) /\ ingest_begin(t, d)
    \/ \E t \in Handlers : Handler(t)
    \/ Tick

SpecSequential == InitQuiet /\ [][NextSequential]_vars

\* The requests arrive at any time: the handlers interleave at their awaits.
NextConcurrent ==
    \/ \E t \in Handlers, d \in TelemetryInputs : Fresh(t) /\ ingest_begin(t, d)
    \/ \E t \in Handlers : Handler(t)
    \/ Tick

SpecConcurrent == InitQuiet /\ [][NextConcurrent]_vars

\* Rule tables as configuration management may leave them: a rule of a type
\* the engine does not know, one whose severity does not validate, one without
\* dedupe_window_sec, one whose path leads to a string (ordered against a number,
\* and compared for inequality), and an inactive one; each ahead of a sound rule.
SoundRule == Rule("RULE-2", 5, 1, TRUE)
FaultyRules ==
    { [Rule("RULE-1", 5, 2, TRUE) EXCEPT !.config.type = "sonar"],
      [Rule("RULE-1", 5, 2, TRUE) EXCEPT !.config.severity = "urgent"],
      Rule("RULE-1", 5, NoWindow, TRUE),
      [Rule("RULE-1", 5, 2, TRUE) EXCEPT !.config.path = "auv_id"],
      [Rule("RULE-1", 5, 2, TRUE) EXCEPT !.config.path = "auv_id",
                                         !.config.operator = "!="] }
WideTables ==
    {<<r, SoundRule>> : r \in FaultyRules}
    \cup { <<Rule("RULE-1", 25, 2, FALSE), SoundRule>>,
           <<Rule("RULE-1", 25, 2, TRUE), SoundRule>> }

InitRules ==
    /\ alert_streams = EmptyDict
    /\ telemetry_streams = EmptyDict
    /\ connected = Sinks
    /\ pub = [t \in Tasks |-> IdleFrame]
    /\ invoked = NoCall
    /\ base = [t \in Tasks |-> Stale]
    /\ alert_rules \in WideTables
    /\ InitDb
    /\ InitAux

\* Requests arriving one after the other while the rules are being managed, all
\* within one second.
NextRules ==
    \/ \E t \in Handlers, d \in TelemetryInputs :
          Fresh(t) /\ NoOtherRunning(t) /\ ingest_begin(t, d)
    \/ \E t \in Handlers : Handler(t)
    \/ \E k \in 1..Len(alert_rules), b \in BOOLEAN : set_rule_active(k, b)

SpecRules == InitRules /\ [][NextRules]_vars

\* Rule tables with a rule of every type: two rules the threshold evaluator
\* serves under the types battery and dissolved_oxygen, a threshold rule the
\* record may not trigger ahead of a battery rule, and a proximity, a zone_dwell
\* and an unknown rule ahead of a threshold rule.
Typed(rule, type) == [rule EXCEPT !.config.type = type]
TypedTables ==
    { <<Typed(Rule("RULE-1", 5, 2, TRUE), "battery"),
        Typed(Rule("RULE-2", 7, 1, TRUE), "dissolved_oxygen")>>,
      <<Rule("RULE-1", 25, 2, TRUE), Typed(Rule("RULE-2", 5, 1, TRUE), "battery")>>,
      <<Typed(Rule("RULE-1", 5, 2, TRUE), "proximity"), SoundRule>>,
      <<Typed(Rule("RULE-1", 5, 2, TRUE), "zone_dwell"), SoundRule>>,
      <<Typed(Rule("RULE-1", 5, 2, TRUE), "sonar"), SoundRule>> }

InitTypes ==
    /\ alert_streams = EmptyDict
    /\ telemetry_streams = EmptyDict
    /\ connected = Sinks
    /\ pub = [t \in Tasks |-> IdleFrame]
    /\ invoked = NoCall
    /\ base = [t \in Tasks |-> Stale]
    /\ alert_rules \in TypedTables
    /\ InitDb
    /\ InitAux

SpecTypes == InitTypes /\ [][NextRules]_vars

\* Rule tables with a rule whose dedupe_window_sec is 0, alone and ahead of a
\* rule with a window; the requests arrive one after the other.
ZeroWindowTables ==
    { <<Rule("RULE-1", 5, 0, TRUE)>>,
      <<Rule("RULE-1", 5, 0, TRUE), SoundRule>>,
      <<Rule("RULE-1", 5, 0, TRUE), Rule("RULE-2", 25, 1, TRUE)>> }

InitZeroWindow ==
    /\ alert_streams = EmptyDict
    /\ telemetry_streams = EmptyDict
    /\ connected = Sinks
    /\ pub = [t \in Tasks |-> IdleFrame]
    /\ invoked = NoCall
    /\ base = [t \in Tasks |-> Stale]
    /\ alert_rules \in ZeroWindowTables
    /\ InitDb
    /\ InitAux

SpecZeroWindow == InitZeroWindow /\ [][NextSequential]_vars

\* check_deduplication on its own: any few rows, any clock, any arguments.
DedupTimes == {0, 1, 300, 301}
DedupWindows == {0, 1, 300}
RuleIds == {"RULE-1", "RULE-2"}
\* A row of the alerts table but for its id.
AlertShapes == [created_at : DedupTimes, auv_id : AuvIds, rule_id : RuleIds]
\* The tables of n rows, ids 1..n.
AlertTables(n) ==
    {{[id |-> i, created_at |-> f[i].created_at, auv_id |-> f[i].auv_id,
       rule_id |-> f[i].rule_id, severity |-> "high", title |-> "",
       message |-> NoMessage, payload |-> [auv_id |-> f[i].auv_id, sediment_mg_l |-> 0],
       telemetry_id |-> 0] : i \in 1..n} :
        f \in [1..n -> AlertShapes]}

InitDedup ==
    /\ alert_streams = EmptyDict
    /\ telemetry_streams = EmptyDict
    /\ connected = Sinks
    /\ pub = [t \in Tasks |-> IdleFrame]
    /\ invoked = NoCall
    /\ base = [t \in Tasks |-> Stale]
    /\ alert_rules = <<>>
    /\ telemetry = {}
    /\ now \in DedupTimes
    /\ \E n \in 0..MaxRows : alerts \in AlertTables(n)
    /\ \A a \in alerts : a.created_at <= now
    /\ nextId = MaxRows + 1
    /\ ing = [t \in Handlers |-> IdleIngest]
    /\ delivered = {}
    /\ dedup = NoDedup
    /\ InitAux

dedup_call(auv_id, rule_id, dedupe_window_sec) ==
    /\ dedup' = [auv_id |-> auv_id, rule_id |-> rule_id, window |-> dedupe_window_sec,
                 rows |-> alerts, utcnow |-> now,
                 result |-> check_deduplication(auv_id, rule_id, dedupe_window_sec,
                                                alerts, now)]
    /\ UNCHANGED <<alert_rules, telemetry, alerts, now, nextId, ing, delivered>>
    /\ UNCHANGED auxVars
    /\ UNCHANGED regVars

NextDedup ==
    \E a \in AuvIds, r \in RuleIds, w \in DedupWindows : dedup_call(a, r, w)

SpecDedup == InitDedup /\ [][NextDedup]_vars

\* The registry over the life of the process: stream endpoints subscribing and
\* unsubscribing, a publisher whose sends may fail, the metrics endpoint asking
\* for the counts and the lifespan handler shutting the registry down.
lifeVars == <<active_streams, closed>>

NextLifecycle ==
    /\ \/ \E a \in SubscribeArgs, r \in Sinks :
            add_alert_stream(a, r) /\ UNCHANGED lifeVars
       \/ \E a \in SubscribeArgs, r \in Sinks :
            add_telemetry_stream(a, r) /\ UNCHANGED lifeVars
       \/ \E a \in SubscribeArgs, r \in Sinks :
            remove_alert_stream(a, r) /\ UNCHANGED lifeVars
       \/ \E a \in SubscribeArgs, r \in Sinks :
            remove_telemetry_stream(a, r) /\ UNCHANGED lifeVars
       \/ \E t \in Publishers : send_alert_event(t, "AUV-001") /\ UNCHANGED lifeVars
       \/ \E t \in Publishers : send_telemetry_event(t, None) /\ UNCHANGED lifeVars
       \/ \E t \in Publishers : PublishReturn(t) /\ UNCHANGED lifeVars
       \/ \E t \in Publishers : send_to_streams_snapshot(t) /\ UNCHANGED lifeVars
       \/ \E t \in Publishers : send_to_streams_check(t) /\ UNCHANGED lifeVars
       \/ \E t \in Publishers, o \in {"ok", "raise"} :
            send_to_streams_send(t, o) /\ UNCHANGED lifeVars
       \/ get_active_streams
       \/ close_all_streams
    /\ UNCHANGED dbVars
    /\ UNCHANGED <<lock, call, gen, evaluated, rate_limit_storage, response>>

SpecLifecycle == InitRegistry /\ [][NextLifecycle]_vars

\* Two tasks calling the registry at any time, each await of a method a step of
\* its own, and the metrics endpoint; the sinks are registered under "all", and
\* the client of one of them may be gone from the start.
LockArgs == {None}

InitLock ==
    /\ alert_streams = EmptyDict
    /\ telemetry_streams = EmptyDict
    /\ connected \in {Sinks, {"r2"}}
    /\ pub = [t \in Tasks |-> IdleFrame]
    /\ invoked = NoCall
    /\ base = [t \in Tasks |-> Stale]
    /\ alert_rules = <<>>
    /\ InitDb
    /\ InitAux

NextLock ==
    \/ \E t \in Callers, op \in CallOps, a \in LockArgs, r \in Sinks :
          call_begin(t, op, "alert", a, r)
    \/ \E t \in Callers : lock_acquire(t)
    \/ \E t \in Callers : lock_body(t)
    \/ \E t \in Callers : call_check(t)
    \/ \E t \in Callers, o \in SendOutcomes : call_send(t, o)
    \/ \E t \in Callers : call_return(t)
    \/ /\ get_active_streams
       /\ UNCHANGED dbVars
       /\ UNCHANGED <<lock, call, gen, evaluated, rate_limit_storage, response>>

SpecLock == InitLock /\ [][NextLock]_vars

\* asyncio.Lock wakes its waiters in the order they came, and the event loop runs
\* a task that is inside a block to the block's end; nothing makes
\* is_disconnected or send_json of a sink complete.
FairSpecLock ==
    SpecLock /\ \A t \in Callers : SF_vars(lock_acquire(t)) /\ WF_vars(lock_body(t))

\* Stream endpoints serving their requests while a publisher publishes alerts:
\* the clients go away and the server cancels generators at any time.
genRest == <<lock, call, active_streams, closed, evaluated, rate_limit_storage,
             response>>

NextStreams ==
    /\ \/ \E r \in Sinks, ch \in {"alert", "telemetry"}, a \in SubscribeArgs,
             o \in YieldOutcomes : gen_start(r, ch, a, o)
       \/ \E r \in Sinks : gen_check(r)
       \/ \E r \in Sinks : gen_sleep(r)
       \/ \E r \in Sinks : gen_cancel(r)
       \/ \E r \in Sinks : Disconnect(r) /\ UNCHANGED gen
       \/ \E t \in Publishers : send_alert_event(t, "AUV-001") /\ UNCHANGED gen
       \/ \E t \in Publishers : PublishReturn(t) /\ UNCHANGED gen
       \/ \E t \in Publishers : send_to_streams_snapshot(t) /\ UNCHANGED gen
       \/ \E t \in Publishers : send_to_streams_check(t) /\ UNCHANGED gen
       \/ \E t \in Publishers, o \in SendOutcomes :
            send_to_streams_send(t, o) /\ UNCHANGED gen
    /\ UNCHANGED dbVars
    /\ UNCHANGED genRest

SpecStreams == InitRegistry /\ [][NextStreams]_vars

\* The steps of the generator of a request once it has started.
GenStep(request) ==
    /\ gen_check(request) \/ gen_sleep(request)
    /\ UNCHANGED dbVars
    /\ UNCHANGED genRest

\* The event loop resumes a generator whose sleep is over, whose event has been
\* sent or which has been cancelled.
FairSpecStreams == SpecStreams /\ \A r \in Sinks : WF_vars(GenStep(r))

\* One call of an evaluator of RuleEngine: the arguments it is called with.
PathCalls ==
    \E i \in DOMAIN PathObjects, path \in ObjectPaths :
        evaluated = [fn |-> "get_value_by_path", obj |-> PathObjects[i],
                     path |-> path, outcome |-> "called", result |-> NoneValue]
ThresholdCalls ==
    \E m \in Measured, path \in ThresholdPaths, op \in ConfigOperators,
       v \in Thresholds :
        evaluated = [fn |-> "evaluate_threshold",
                     telemetry |-> [BaseTelemetry EXCEPT !.sediment_mg_l = m],
                     rule_config |-> [BaseConfig EXCEPT !.path = path,
                                                        !.operator = op, !.value = v],
                     outcome |-> "called", result |-> NotTriggered]
ProximityCalls ==
    \E detections \in DetectionLists, path \in ProximityPaths, op \in {"<", ">"},
       v \in ProximityValues :
        evaluated = [fn |-> "evaluate_proximity",
                     telemetry |-> [BaseTelemetry EXCEPT
                                       !.species_detections = detections],
                     rule_config |-> [BaseConfig EXCEPT
                                         !.type = "proximity", !.path = path,
                                         !.operator = op, !.value = v],
                     outcome |-> "called", result |-> NotTriggered]

ZoneDwellCalls ==
    \E zones \in ZoneTables, position \in Positions,
       zone_type \in {None, "", "sensitive"}, max_minutes \in {NoMinutes, 0, 30} :
        evaluated = [fn |-> "evaluate_zone_dwell",
                     telemetry |-> [BaseTelemetry EXCEPT !.position = position],
                     rule_config |-> [BaseConfig EXCEPT
                                         !.type = "zone_dwell",
                                         !.zone_type = zone_type,
                                         !.max_minutes = max_minutes],
                     zones |-> zones,
                     outcome |-> "called", result |-> NotTriggered]

InitEngine ==
    /\ alert_streams = EmptyDict
    /\ telemetry_streams = EmptyDict
    /\ connected = Sinks
    /\ pub = [t \in Tasks |-> IdleFrame]
    /\ invoked = NoCall
    /\ base = [t \in Tasks |-> Stale]
    /\ alert_rules = <<>>
    /\ InitDb
    /\ InitAuxRest
    /\ PathCalls \/ ThresholdCalls \/ ProximityCalls \/ ZoneDwellCalls

\* The evaluator runs on its arguments.
NextEngine ==
    \/ get_value_by_path_call
    \/ evaluate_threshold_call
    \/ evaluate_proximity_call
    \/ evaluate_zone_dwell_call

SpecEngine == InitEngine /\ [][NextEngine]_vars

\* Requests of the clients pass RateLimitMiddleware while time goes by.
NextRateLimit ==
    \/ \E client_ip \in Clients : rate_limit_call(client_ip)
    \/ Tick

SpecRateLimit == InitRegistry /\ [][NextRateLimit]_vars

\* ================================================================ claims
\* A publish call of task t that has returned and that nothing disturbed: no
\* subscribe, unsubscribe or disconnect happened between its call and its return.
QuietReturn(t) == pub[t].stage = "returned" /\ base[t].ok

Registered(d, s) == \E k \in DOMAIN d : Count(s, d[k]) > 0

\* C1: a publish with a specific key K invokes send once per registration of a
\* connected sink under K and once per registration under "all" (twice for a sink
\* registered under both), and never on a sink registered only under other keys
\* or on a disconnected one.
C1_KeyedPublishFanout ==
    \A t \in Tasks :
        (QuietReturn(t) /\ Truthy(pub[t].auv_id) /\ pub[t].auv_id # ALL) =>
            \A s \in Sinks :
                base[t].sent[s] =
                    IF s \in connected
                    THEN Count(s, Get(base[t].reg, pub[t].auv_id))
                         + Count(s, Get(base[t].reg, ALL))
                    ELSE 0

\* A keyed publish returned after sending twice to a sink registered under both
\* the key and "all".
C1_Witness ==
    \E t \in Tasks, s \in Sinks :
        /\ QuietReturn(t) /\ Truthy(pub[t].auv_id) /\ pub[t].auv_id # ALL
        /\ Count(s, Get(base[t].reg, pub[t].auv_id)) = 1
        /\ Count(s, Get(base[t].reg, ALL)) = 1
        /\ base[t].sent[s] = 2

\* C2: a publish of an alert event with no key sends the event exactly once to
\* every connected registered alert sink, whatever key it is registered under.
C2_UnkeyedPublishReachesEverySink ==
    \A t \in Tasks :
        (QuietReturn(t) /\ pub[t].chan = "alert" /\ pub[t].auv_id = None) =>
            \A s \in connected :
                Registered(base[t].reg, s) => base[t].sent[s] = 1

\* What a step of task t's publish call does when the sink at hand answers
\* is_disconnected() with true.
C3_Step(t) ==
    LET p == pub[t]
        s == Head(p.streams)
        key == PassKey(p)
    IN (p.stage = "check" /\ pub'[t] # p /\ s \notin connected) =>
          /\ invoked'.sink # s
          /\ pub'[t].stage # "send"
          /\ Count(s, Get(Streams(p.chan)', key)) = 0
          /\ (\A j \in 1..Len(Get(Streams(p.chan), key)) : Streams(p.chan)[key][j] = s)
                => key \notin DOMAIN Streams(p.chan)'

\* C3: the step in which a sink reports itself disconnected invokes no send on
\* it and leaves it unregistered under the key being delivered; when the key held
\* no other sink, the key is gone.
C3_DisconnectedSinkPruned == [][\A t \in Tasks : C3_Step(t)]_vars

\* An undisturbed publish returned having pruned a disconnected sink that was
\* alone under its key: nothing was sent to it and the key is gone.
C3_Witness ==
    \E t \in Tasks, s \in Sinks :
        /\ QuietReturn(t) /\ Truthy(pub[t].auv_id)
        /\ s \notin connected
        /\ Get(base[t].reg, pub[t].auv_id) = <<s>>
        /\ base[t].sent[s] = 0
        /\ pub[t].auv_id \notin DOMAIN Streams(pub[t].chan)

\* What a step of task t's publish call does when send_json raises on the sink
\* at hand.
C4_Step(t) ==
    LET p == pub[t]
        s == Head(p.streams)
        key == PassKey(p)
        d == Streams(p.chan)
        other == IF p.chan = "alert" THEN "telemetry" ELSE "alert"
    IN (p.stage = "send" /\ pub'[t] # p /\ invoked'.outcome = "raise") =>
          /\ Count(s, Get(Streams(p.chan)', key)) = 0
          /\ \A k \in DOMAIN d \ {key} :
                k \in DOMAIN Streams(p.chan)' /\ Streams(p.chan)'[k] = d[k]
          /\ \A r \in Sinks \ {s} :
                Count(r, Get(Streams(p.chan)', key)) = Count(r, Get(d, key))
          /\ Streams(other)' = Streams(other)
          /\ IF Len(p.streams) > 1
             THEN pub'[t].stage = "check" /\ pub'[t].streams = Tail(p.streams)
             ELSE pub'[t].stage \in {"snap", "returned"}
          /\ t \in Ingestors => ing'[t] = ing[t]

\* C4: the step in which send_json raises prunes that sink, under the key being
\* delivered and nowhere else, goes on to the next sink of the snapshot, and
\* leaves the ingestion that published as it was: the failure reaches no caller.
C4_SendFailureContained == [][\A t \in Tasks : C4_Step(t)]_vars

\* An ingestion succeeded although the send to one sink failed: r1, still
\* connected, was pruned from the key it shared with r2, and r2 got the alert.
C4_Witness ==
    \E t \in Ingestors :
        /\ ing[t].pc = "done"
        /\ "r1" \in connected
        /\ Get(alert_streams, "AUV-001") = <<"r2">>
        /\ [chan |-> "alert", telemetry_id |-> ing[t].telemetry_id, sink |-> "r2"]
             \in delivered

\* C5: an ingestion that has started always eventually returns to its caller,
\* with its response or its failure, whatever the sinks do.
C5_IngestionReturns ==
    \A t \in Ingestors :
        (ing[t].pc = "flush") ~> (ing[t].pc \in {"done", "failed"})

\* C6: within one ingestion no send_alert_event call follows the
\* send_telemetry_event call.
C6_AlertsBeforeTelemetry ==
    \A t \in Ingestors :
        \A i, j \in 1..Len(ing[t].published) :
            (ing[t].published[i] = "telemetry" /\ i < j) => ing[t].published[j] # "alert"

\* An ingestion published an alert event and then its telemetry event.
C6_Witness ==
    \E t \in Ingestors :
        /\ Len(ing[t].published) >= 2
        /\ ing[t].published[1] = "alert"
        /\ ing[t].published[Len(ing[t].published)] = "telemetry"

\* C7: a telemetry event is published, and delivered, only for a record whose
\* ingestion has committed; an ingestion that failed has delivered none.
C7_TelemetryAfterCommit ==
    /\ \A d \in delivered : d.chan = "telemetry" => d.telemetry_id \in telemetry
    /\ \A t \in Ingestors :
          (ing[t].pc = "publish_telemetry" \/ "telemetry" \in
              {ing[t].published[i] : i \in 1..Len(ing[t].published)})
            => ing[t].telemetry_id \in telemetry
    /\ \A t \in Ingestors :
          ing[t].pc = "failed" =>
            ~\E d \in delivered :
                d.chan = "telemetry" /\ d.telemetry_id = ing[t].telemetry_id

\* A committed record's telemetry event reached a sink.
C7_Witness ==
    \E d \in delivered : d.chan = "telemetry" /\ d.telemetry_id \in telemetry

\* C8: an ingestion that failed left neither its telemetry row nor any of its
\* alerts in the store, and holds nothing pending.
C8_FailedIngestionStoresNothing ==
    \A t \in Ingestors :
        ing[t].pc = "failed" =>
            /\ ing[t].telemetry_id \notin telemetry
            /\ \A a \in alerts : a.telemetry_id # ing[t].telemetry_id
            /\ ing[t].new = <<>> /\ ing[t].flushed = {}

\* An ingestion failed at its commit after it had created an alert.
C8_Witness ==
    \E t \in Ingestors :
        /\ ing[t].pc = "failed" /\ ing[t].cause = "commit"
        /\ ing[t].alerts_generated > 0
        /\ ing[t].telemetry_id # 0

\* C9: an ingestion that rolled back has sent none of its alert events to a sink.
C9_NoAlertEventOfRolledBackIngestion ==
    \A t \in Ingestors :
        ing[t].pc = "failed" =>
            ~\E d \in delivered :
                d.chan = "alert" /\ d.telemetry_id = ing[t].telemetry_id

\* The age of a row at the moment of the check.
Age(a) == dedup.utcnow - a.created_at
SamePair(a) == a.auv_id = dedup.auv_id /\ a.rule_id = dedup.rule_id

\* C10: check_deduplication returns true exactly when no alert of the same AUV
\* and the same rule is at most window seconds old; with a window of 300 a single
\* such alert aged 1 or exactly 300 refuses and one aged 301 permits.
C10_DedupPermitsIffNoneInWindow ==
    dedup.result # None =>
        /\ dedup.result = "True" <=>
              \A a \in dedup.rows : SamePair(a) => Age(a) > dedup.window
        /\ \A a \in dedup.rows :
              (dedup.window = 300 /\ dedup.rows = {a} /\ SamePair(a)) =>
                  /\ Age(a) = 1 => dedup.result = "False"
                  /\ Age(a) = 300 => dedup.result = "False"
                  /\ Age(a) = 301 => dedup.result = "True"

\* A check refused because of an alert exactly as old as the window, next to an
\* alert of another AUV.
C10_Witness ==
    /\ dedup.result = "False" /\ dedup.window = 300
    /\ \E a \in dedup.rows : SamePair(a) /\ Age(a) = 300
    /\ \E b \in dedup.rows : b.auv_id # dedup.auv_id

\* Two different rows of table alerts for the same AUV and the same rule.
SamePairRows(a, b) ==
    a \in alerts /\ b \in alerts /\ a # b /\ a.auv_id = b.auv_id /\ a.rule_id = b.rule_id

\* The dedupe window of the rule with this id.
WindowOf(rule_id) ==
    LET k == CHOOSE i \in 1..Len(alert_rules) : alert_rules[i].id = rule_id
    IN alert_rules[k].config.dedupe_window_sec

\* The later row was created within the window after the earlier.
InsideWindow(a, b) ==
    /\ a.created_at <= b.created_at
    /\ b.created_at - a.created_at <= WindowOf(a.rule_id)

\* C11: when the ingestions do not overlap, any two persisted alerts of the same
\* AUV and the same rule were created more than the rule's dedupe window apart.
C11_SequentialAlertsOutsideWindow ==
    \A a, b \in alerts : SamePairRows(a, b) => ~InsideWindow(a, b)

\* A later ingestion of a record that triggers both rules was answered: its
\* alert for one rule is in the store next to the earlier ingestion's, outside
\* that rule's window, and it got none for the other rule, whose earlier alert
\* is still inside the window.
C11_Witness ==
    \E t \in Handlers, a, b, c \in alerts :
        /\ ing[t].pc = "done" /\ ing[t].data.sediment_mg_l = 30
        /\ SamePairRows(a, b)
        /\ a.telemetry_id # ing[t].telemetry_id /\ b.telemetry_id = ing[t].telemetry_id
        /\ c.auv_id = a.auv_id /\ c.rule_id # a.rule_id
        /\ c.telemetry_id = a.telemetry_id
        /\ now - c.created_at <= WindowOf(c.rule_id)
        /\ ~\E d \in alerts : d.rule_id = c.rule_id /\ d.telemetry_id = ing[t].telemetry_id

\* What the dedup step of handler t answers: it permits exactly when neither the
\* committed rows nor the rows of its own session hold an alert of the pair in
\* the window, whatever another session has not yet committed.
C12_Step(t) ==
    LET f == ing[t]
        rule == alert_rules[Head(f.rules)]
        own == {a \in FlushRows(f.new, nextId, now) \cup f.flushed \cup alerts :
                    /\ a.auv_id = f.data.auv_id /\ a.rule_id = rule.id
                    /\ a.created_at >= now - rule.config.dedupe_window_sec}
    IN (f.pc = "dedup" /\ ing'[t].pc \notin {"dedup", "failed"}) =>
          (ing'[t].pc = "publish_alert" <=> own = {})

\* C12: the dedup check and the insert are not one atomic step: a check does not
\* see what another ingestion has not committed, so two overlapping ingestions
\* both pass it.
C12_DedupCheckNotAtomic == [][\A t \in Handlers : C12_Step(t)]_vars

\* Two committed alerts of the same AUV and rule, of two ingestions, inside one
\* dedupe window.
C12_Witness ==
    \E a, b \in alerts :
        SamePairRows(a, b) /\ a.telemetry_id # b.telemetry_id /\ InsideWindow(a, b)

\* The rule with this id triggers on the record and produces this title and
\* message.
TriggeredBy(rule_id, record, title, message) ==
    \E k \in 1..Len(alert_rules) :
        LET rule == alert_rules[k]
        IN /\ rule.id = rule_id /\ rule.active
           /\ ~RuleFaults(record, rule)
           /\ evaluate_threshold(record, rule.config) =
                  [triggered |-> TRUE, title |-> title, message |-> message]

\* C13: every persisted alert names an active rule that triggered on the
\* ingested record, and carries the title and message that rule's evaluation
\* produced.
C13_AlertBelongsToTriggeredRule ==
    \A a \in alerts : TriggeredBy(a.rule_id, a.payload, a.title, a.message)

\* The alerts of table alerts that the ingestion of frame f created.
AlertsOf(f) == {a \in alerts : a.telemetry_id = f.telemetry_id}

\* The send_alert_event calls of the ingestion of frame f.
AlertEventsOf(f) ==
    Cardinality({i \in 1..Len(f.published) : f.published[i] = "alert"})

\* One active rule with a positive window, which the record of f triggers, and no
\* alert of an earlier ingestion for the pair.
SingleRuleCase(f) ==
    /\ Len(alert_rules) = 1
    /\ alert_rules[1].active /\ alert_rules[1].config.dedupe_window_sec > 0
    /\ ~RuleFaults(f.data, alert_rules[1])
    /\ evaluate_threshold(f.data, alert_rules[1].config).triggered
    /\ ~\E a \in alerts \ AlertsOf(f) :
          a.auv_id = f.data.auv_id /\ a.rule_id = alert_rules[1].id

\* C14: the alerts_generated of a successful ingestion is the number of alerts it
\* persisted and of alert events it published; in the single-rule case it is 1
\* and the one alert carries the rule's severity and the evaluation's title and
\* message.
C14_AlertsGeneratedCountsAlerts ==
    \A t \in Handlers :
        ing[t].pc = "done" =>
            /\ ing[t].alerts_generated = Cardinality(AlertsOf(ing[t]))
            /\ ing[t].alerts_generated = AlertEventsOf(ing[t])
            /\ SingleRuleCase(ing[t]) =>
                  /\ ing[t].alerts_generated = 1
                  /\ \A a \in AlertsOf(ing[t]) :
                        /\ a.rule_id = alert_rules[1].id
                        /\ a.auv_id = ing[t].data.auv_id
                        /\ a.severity = alert_rules[1].config.severity
                        /\ TriggeredBy(a.rule_id, ing[t].data, a.title, a.message)

\* A record with sediment 30 was ingested against the single rule "> 25": the
\* answer counts one alert and the store holds it.
C14_Witness ==
    \E t \in Handlers :
        /\ ing[t].pc = "done" /\ SingleRuleCase(ing[t])
        /\ ing[t].data.sediment_mg_l = 30
        /\ ing[t].alerts_generated = 1
        /\ Cardinality(AlertsOf(ing[t])) = 1

\* The ids of the rules whose stored configuration has no dedupe_window_sec.
WindowlessRules ==
    {alert_rules[k].id : k \in {i \in 1..Len(alert_rules) :
                                    alert_rules[i].config.dedupe_window_sec = NoWindow}}

\* The alerts an ingestion holds in its session: added or flushed, not committed.
SessionAlerts(f) == {f.new[i] : i \in 1..Len(f.new)} \cup f.flushed

\* C15: no alert, persisted or held by an ingestion, and so no alert event being
\* published, names a rule whose configuration lacks dedupe_window_sec.
C15_WindowlessRuleNeverAlerts ==
    /\ \A a \in alerts : a.rule_id \notin WindowlessRules
    /\ \A t \in Handlers :
          /\ \A a \in SessionAlerts(ing[t]) : a.rule_id \notin WindowlessRules
          /\ ing[t].pc = "publish_alert" =>
                ing[t].new[Len(ing[t].new)].rule_id \notin WindowlessRules

\* An ingestion whose record triggered the rule with a window was answered with
\* that rule's alert only, the active rule without a window having been passed
\* over.
C15_Witness ==
    \E t \in Handlers :
        /\ ing[t].pc = "done" /\ ing[t].alerts_generated = 1
        /\ \E k \in 1..Len(alert_rules) :
              alert_rules[k].active /\ alert_rules[k].id \in WindowlessRules
        /\ \E a \in AlertsOf(ing[t]) : a.rule_id \notin WindowlessRules

\* What a step does to the alerts of inactive rules: the results of an
\* evaluate_rules call come from rules active at the call, and no row of table
\* alerts is removed or changed.
C16_Step(t) ==
    /\ (ing[t].pc = "eval" /\ ing'[t].pc \in {"select", "commit"}) =>
          \A i \in 1..Len(ing'[t].rule_results) :
              \E k \in 1..Len(alert_rules) :
                  /\ alert_rules[k].active
                  /\ EvaluateRule(ing[t].data, alert_rules[k]) = <<ing'[t].rule_results[i]>>
    /\ alerts \subseteq alerts'

\* C16: an ingestion holds and persists no alert of a rule that was inactive all
\* through it, evaluate_rules evaluates active rules only, and the alerts in the
\* store stay as they are when a rule is deactivated.
C16_InactiveRuleDoesNotParticipate ==
    /\ [](\A t \in Handlers :
            /\ \A a \in SessionAlerts(ing[t]) : a.rule_id \in ing[t].active_seen
            /\ ing[t].pc = "done" =>
                  \A a \in AlertsOf(ing[t]) : a.rule_id \in ing[t].active_seen)
    /\ [][\A t \in Handlers : C16_Step(t)]_vars

\* The store holds an alert of a rule that is now inactive, and an ingestion of a
\* record that would trigger the rule, run all through while it was inactive, was
\* answered with no alert for it.
C16_Witness ==
    \E t \in Handlers, a \in alerts, k \in 1..Len(alert_rules) :
        /\ a.rule_id = alert_rules[k].id /\ ~alert_rules[k].active
        /\ ing[t].pc = "done" /\ a.telemetry_id # ing[t].telemetry_id
        /\ alert_rules[k].id \notin ing[t].active_seen
        /\ ~RuleFaults(ing[t].data, alert_rules[k])
        /\ evaluate_threshold(ing[t].data, alert_rules[k].config).triggered
        /\ ~\E b \in AlertsOf(ing[t]) : b.rule_id = a.rule_id

\* The rules of the table that can be evaluated on the record.
SoundRules(record) == SelectSeq(alert_rules, LAMBDA rule : ~RuleFaults(record, rule))

\* What the evaluate_rules call of handler t returns.
C17_Step(t) ==
    (ing[t].pc = "eval" /\ ing'[t].pc \in {"select", "commit"}) =>
        ing'[t].rule_results = evaluate_rules(ing[t].data, SoundRules(ing[t].data))

\* C17: evaluate_rules returns what it would return if every rule whose
\* configuration does not parse, whose type is unknown or whose evaluator raises
\* were not in the table: such a rule stops no later rule from being evaluated.
C17_RuleErrorsIsolated == [][\A t \in Handlers : C17_Step(t)]_vars

\* An evaluation got the result of the sound rule that follows a rule which
\* cannot be evaluated.
C17_Witness ==
    \E t \in Handlers :
        /\ ing[t].pc = "select" /\ Len(ing[t].rule_results) = 1
        /\ alert_rules[1].active /\ RuleFaults(ing[t].data, alert_rules[1])
        /\ ing[t].rule_results[1].message.value = alert_rules[2].config.value

\* What a step that is an unsubscribe call (it leaves the publish frames and the
\* sinks alone) leaves of the sink under the key.
C18_Step ==
    (pub' = pub /\ connected' = connected) =>
        \A a \in SubscribeArgs, r \in Sinks :
            /\ remove_alert_stream(a, r) =>
                  Count(r, Get(alert_streams', KeyOf(a))) = 0
            /\ remove_telemetry_stream(a, r) =>
                  Count(r, Get(telemetry_streams', KeyOf(a))) = 0

\* C18: after an unsubscribe the sink is not registered under the key, and in
\* every state no key of either channel maps to an empty list of sinks.
C18_NoEmptyKey ==
    /\ [](\A ch \in {"alert", "telemetry"} :
            \A k \in DOMAIN Streams(ch) : Streams(ch)[k] # <<>>)
    /\ [][C18_Step]_vars

\* An undisturbed publish found one connected sink under its key, the send
\* raised, and the remove_*_stream call of the except block took the sink and,
\* with it, the key out of the registry, the other key staying.
C18_Witness ==
    \E t \in Publishers, s \in Sinks :
        /\ QuietReturn(t) /\ Truthy(pub[t].auv_id) /\ pub[t].auv_id # ALL
        /\ Get(base[t].reg, pub[t].auv_id) = <<s>>
        /\ s \in connected /\ base[t].sent[s] = 1
        /\ pub[t].auv_id \notin DOMAIN Streams(pub[t].chan)
        /\ ALL \in DOMAIN Streams(pub[t].chan)

\* What a subscribe and an unsubscribe with a null key (steps that leave the
\* publish frames and the sinks alone) do.
C19_Step ==
    (pub' = pub /\ connected' = connected) =>
        \A r \in Sinks :
            /\ add_alert_stream(None, r) =>
                  Count(r, Get(alert_streams', ALL)) = Count(r, Get(alert_streams, ALL)) + 1
            /\ add_telemetry_stream(None, r) =>
                  Count(r, Get(telemetry_streams', ALL))
                      = Count(r, Get(telemetry_streams, ALL)) + 1
            /\ remove_alert_stream(None, r) => Count(r, Get(alert_streams', ALL)) = 0
            /\ remove_telemetry_stream(None, r) =>
                  Count(r, Get(telemetry_streams', ALL)) = 0

\* C19: a subscribe with a null key registers the sink under "all", an
\* unsubscribe with a null key removes it from "all", and an undisturbed publish,
\* whatever its key, has called send on every connected sink registered under
\* "all".
C19_NullKeyMeansAll ==
    /\ [](\A t \in Tasks :
            QuietReturn(t) =>
                \A s \in connected :
                    Count(s, Get(base[t].reg, ALL)) > 0 => base[t].sent[s] >= 1)
    /\ [][C19_Step]_vars

\* A publish keyed with an AUV's id reached the sink registered under "all"
\* only, which is still registered.
C19_Witness ==
    \E t \in Publishers, s \in Sinks :
        /\ QuietReturn(t) /\ Truthy(pub[t].auv_id) /\ pub[t].auv_id # ALL
        /\ DOMAIN base[t].reg = {ALL} /\ base[t].reg[ALL] = <<s>>
        /\ s \in connected /\ base[t].sent[s] = 1
        /\ Get(Streams(pub[t].chan), ALL) = <<s>>

\* C20: a sink is registered at most once under a key, however often it was
\* subscribed.
C20_SubscribeIdempotent ==
    \A ch \in {"alert", "telemetry"} :
        \A k \in DOMAIN Streams(ch), s \in Sinks : Count(s, Streams(ch)[k]) <= 1

\* C21: a get_active_streams call returns to its caller, for each channel, the
\* number of sinks registered across all the keys of the channel at the call.
C21_CountIsTotal ==
    [][active_streams' # active_streams =>
          /\ active_streams'.outcome = "ok"
          /\ active_streams'.alert_streams = TotalSinks(alert_streams)
          /\ active_streams'.telemetry_streams = TotalSinks(telemetry_streams)]_vars

\* What a close_all_streams call leaves, and what a step of a publish caught by
\* the shutdown does to the emptied registry.
C22_Step ==
    /\ closed' # closed =>
          alert_streams' = EmptyDict /\ telemetry_streams' = EmptyDict
    /\ (closed > 0 /\ RegistrySize = 0 /\ pub' # pub) =>
          alert_streams' = EmptyDict /\ telemetry_streams' = EmptyDict

\* C22: close_all_streams leaves both channels without keys and sinks, be the
\* registry full, already shut down or empty, and a publish that goes on after
\* it with the sinks it had copied finds nothing to prune and puts nothing back.
C22_ShutdownEmptiesRegistry == [][C22_Step]_vars

\* The second shutdown has happened, the registry is empty and a publish is still
\* going through the sinks it copied before.
C22_Witness ==
    /\ closed = 2
    /\ alert_streams = EmptyDict /\ telemetry_streams = EmptyDict
    /\ \E t \in Publishers : pub[t].stage = "send" /\ Len(pub[t].streams) = 2

\* The callers that are inside an "async with self._lock" block.
Holders == {t \in Callers : call[t].holds}

\* What a step does to the sink maps and to a publish's copy of a key's list.
C23_Step ==
    /\ (alert_streams' # alert_streams \/ telemetry_streams' # telemetry_streams) =>
          \E t \in Holders : lock = t /\ call'[t] # call[t]
    /\ \A t \in Callers :
          (call'[t].streams # <<>> /\ call[t].streams = <<>>) => (t \in Holders /\ lock = t)

\* C23: at most one task is inside a block of the registry lock, and it is the
\* task the lock names; the sink maps change and a key's list is copied only in
\* a step of the task that holds the lock; and a task that is at is_disconnected
\* or send_json of a sink, or hangs in one, does not hold the lock.
C23_LockDiscipline ==
    /\ [](/\ Cardinality(Holders) <= 1
          /\ \A t \in Callers : t \in Holders <=> lock = t
          /\ \A t \in Callers :
                call[t].stage \in {"check", "send", "hung"} => t \notin Holders)
    /\ [][C23_Step]_vars

\* One task is inside the block of add_alert_stream while the other, past its
\* snapshot block, is about to call send_json on a sink it copied.
C23_Witness ==
    \E t, u \in Callers :
        /\ call[t].stage = "in_add" /\ lock = t
        /\ call[u].stage = "send" /\ call[u].streams # <<>> /\ ~call[u].holds

\* C30: a task standing before a block of the registry lock never holds the
\* lock itself, and it gets into the block and out of it again whatever the
\* other task does, be it blocked for ever in send_json or is_disconnected of a
\* sink.
C30_RegistryMakesProgress ==
    /\ [](\A t \in Callers : call[t].stage \in WaitStages => ~call[t].holds)
    /\ \A t \in Callers :
          (call[t].stage \in WaitStages \cup BodyStages)
              ~> (call[t].stage \notin WaitStages \cup BodyStages)

\* One task hangs in send_json of a sink while the other is inside the block of
\* remove_alert_stream it was called for after that sink's send had begun.
C30_Witness ==
    \E t, u \in Callers :
        /\ call[t].stage = "hung"
        /\ call[u].stage \in {"in_remove", "in_close", "in_snap", "in_prune"}
        /\ lock = u

\* C24: the request of a stream endpoint whose generator has finished is
\* registered nowhere, and a generator whose client has gone or which has been
\* cancelled finishes.
C24_EndpointSinkIsRemoved ==
    /\ [](\A r \in Sinks :
            gen[r].pc = "closed" =>
                ~Registered(alert_streams, r) /\ ~Registered(telemetry_streams, r))
    /\ \A r \in Sinks :
          (gen[r].pc \in GenSuspended /\ (r \notin connected \/ gen[r].cancelled))
              ~> (gen[r].pc = "closed")

\* A generator that had yielded its "connect" event found its client gone and
\* took its request out of the key it shares with the other request, which is
\* still registered there.
C24_Witness ==
    \E r, q \in Sinks :
        /\ r # q
        /\ gen[r].pc = "closed" /\ gen[r].connected /\ ~gen[r].cancelled
        /\ r \notin connected
        /\ gen[q].pc \in GenSuspended
        /\ gen[q].chan = gen[r].chan /\ gen[q].auv_id = gen[r].auv_id
        /\ Get(Streams(gen[q].chan), KeyOf(gen[q].auv_id)) = <<q>>

\* The walk of get_value_by_path ends before the last segment: a segment is
\* missing from an object, or the value reached is no object.
RECURSIVE EndsEarly(_, _)
EndsEarly(current, keys) ==
    /\ keys # <<>>
    /\ \/ current.t # "dict"
       \/ ArrayKey(Head(keys)) \notin DOMAIN current.v
       \/ EndsEarly(current.v[ArrayKey(Head(keys))], Tail(keys))

\* C26: the path lookup never raises; when a segment is missing, or the lookup
\* goes into a value that is not an object (as "a.b.c" on {"a": {"b": 123}}), it
\* yields None.
C26_PathLookupNeverRaises ==
    (evaluated.fn = "get_value_by_path" /\ evaluated.outcome # "called") =>
        /\ evaluated.result.t # "raise"
        /\ ( /\ \A i \in DOMAIN PathKeys(evaluated.path) :
                    ~EndsWithBrackets(PathKeys(evaluated.path)[i])
             /\ EndsEarly(evaluated.obj, PathKeys(evaluated.path)) )
           => evaluated.result.t = "none"

\* "resolved operator threshold" for a number, by the side of the threshold the
\* number lies on.
Satisfies(resolved, operator, threshold) ==
    \/ resolved < threshold /\ operator \in {"<", "<=", "!="}
    \/ resolved = threshold /\ operator \in {">=", "<=", "=="}
    \/ resolved > threshold /\ operator \in {">", ">=", "!="}

\* C25: evaluate_threshold returns triggered = true exactly when the value
\* resolved at the rule's path satisfies "resolved operator threshold" for the
\* operators >, <, >=, <=, == and !=, and triggered = false otherwise; when the
\* path resolves to None it returns triggered = false.  (A resolved value that is
\* no number equals no threshold: it satisfies != and not ==.)
C25_ThresholdMatchesOperator ==
    (evaluated.fn = "evaluate_threshold" /\ evaluated.outcome # "called") =>
        LET resolved == get_value_by_path(TelemetryDict(evaluated.telemetry),
                                          evaluated.rule_config.path)
            operator == evaluated.rule_config.operator
            threshold == evaluated.rule_config.value
            returned == evaluated.outcome = "return"
            triggered == evaluated.result.triggered
        IN /\ resolved.t = "none" => returned /\ ~triggered
           /\ (resolved.t = "num" /\ operator \in Operators) =>
                 /\ returned
                 /\ triggered <=> Satisfies(resolved.v, operator, threshold)
           /\ (resolved.t \in {"str", "list", "dict"} /\ operator \in {"==", "!="}) =>
                 /\ returned
                 /\ triggered <=> operator = "!="

\* A reading equal to the threshold triggered under >=.
C25_Witness ==
    /\ evaluated.fn = "evaluate_threshold"
    /\ evaluated.rule_config.path = "env.sediment_mg_l"
    /\ evaluated.rule_config.operator = ">="
    /\ evaluated.telemetry.sediment_mg_l = evaluated.rule_config.value
    /\ evaluated.outcome = "return"
    /\ evaluated.result.triggered
    /\ evaluated.result.message.current = evaluated.telemetry.sediment_mg_l

\* C27: evaluate_proximity returns triggered = true exactly when some detection
\* of the record has distance_m strictly below the rule's value (none for an
\* empty list, none for a detection at exactly value); the operator and the path
\* of the rule make no difference; the detection named in the message is one of
\* least distance among those below the value.
C27_ProximityIsStrictlyBelowValue ==
    (evaluated.fn = "evaluate_proximity" /\ evaluated.outcome # "called") =>
        LET detections == evaluated.telemetry.species_detections
            value == evaluated.rule_config.value
            below == {i \in DOMAIN detections : detections[i].distance_m < value}
            result == evaluated.result
        IN /\ result.triggered <=> below # {}
           /\ result.triggered =>
                 \E i \in below :
                     /\ detections[i].name = result.message.name
                     /\ detections[i].distance_m = result.message.distance_m
                     /\ \A j \in below :
                            detections[i].distance_m <= detections[j].distance_m
           /\ \A op \in ConfigOperators, path \in ProximityPaths \cup ThresholdPaths :
                 LET other == evaluate_proximity(
                                  evaluated.telemetry,
                                  [evaluated.rule_config EXCEPT !.operator = op,
                                                                !.path = path])
                 IN /\ other.triggered = result.triggered
                    /\ result.triggered =>
                          /\ other.message.name = result.message.name
                          /\ other.message.distance_m = result.message.distance_m

\* Under operator ">", a record with a detection at exactly the value and a
\* closer one after it triggered, naming the closer one.
C27_Witness ==
    /\ evaluated.fn = "evaluate_proximity"
    /\ evaluated.rule_config.operator = ">"
    /\ Len(evaluated.telemetry.species_detections) = 2
    /\ evaluated.telemetry.species_detections[1].distance_m = evaluated.rule_config.value
    /\ evaluated.telemetry.species_detections[2].distance_m < evaluated.rule_config.value
    /\ evaluated.result.triggered
    /\ evaluated.result.message.name = evaluated.telemetry.species_detections[2].name
    /\ evaluated.result.message.name # evaluated.telemetry.species_detections[1].name

\* The lattice points strictly inside the zone's square or triangle, for the
\* geometries that are well-formed Polygons.
Inside(geom, position) ==
    LET x == position.lng
        y == position.lat
    IN \/ geom = PolygonGeom(SmallSquare) /\ 0 < x /\ x < 2 /\ 0 < y /\ y < 2
       \/ geom = PolygonGeom(LargeSquare) /\ 0 < x /\ x < 4 /\ 0 < y /\ y < 4
       \/ geom = PolygonGeom(OpenTriangle) /\ 0 < y /\ y < x /\ x < 4

\* C28: evaluate_zone_dwell returns triggered = true exactly when the rule has a
\* zone_type and some zone of that type with a well-formed Polygon geometry
\* contains the record's (lng, lat) point; the zone named is the first such zone
\* in load order; zones with malformed or non-Polygon geometry are skipped
\* without effect on the zones after them; nothing but the current record and
\* the zones decides (max_minutes does not).
C28_ZoneDwellIsContainment ==
    (evaluated.fn = "evaluate_zone_dwell" /\ evaluated.outcome # "called") =>
        LET zones == evaluated.zones
            zone_type == evaluated.rule_config.zone_type
            containing == {i \in DOMAIN zones :
                              /\ zones[i].zone_type = zone_type
                              /\ Inside(zones[i].geom, evaluated.telemetry.position)}
            result == evaluated.result
        IN /\ result.triggered <=> (zone_type \notin {None, ""} /\ containing # {})
           /\ result.triggered =>
                 \E i \in containing :
                     /\ result.message.name = zones[i].name
                     /\ \A j \in containing : i <= j
           /\ \A max_minutes \in {NoMinutes, 0, 30} :
                 evaluate_zone_dwell(
                     evaluated.telemetry,
                     [evaluated.rule_config EXCEPT !.max_minutes = max_minutes],
                     zones).triggered = result.triggered

\* The second zone was named: the first zone of the rule's type has text that
\* is no JSON, the second contains the point.
C28_Witness ==
    /\ evaluated.fn = "evaluate_zone_dwell"
    /\ evaluated.outcome = "return"
    /\ Len(evaluated.zones) >= 2
    /\ evaluated.zones[1].zone_type = evaluated.rule_config.zone_type
    /\ evaluated.zones[1].geom.text = "bad"
    /\ evaluated.result.triggered
    /\ evaluated.result.message.name = evaluated.zones[2].name

\* The requests of client c accepted at the seconds t .. now.
RECURSIVE AcceptedSince(_, _)
AcceptedSince(c, t) ==
    IF t > now THEN 0 ELSE response.accepted[c][t] + AcceptedSince(c, t + 1)

\* The requests of client c accepted in the preceding window_seconds: those of
\* an age below window_seconds.
RecentlyAccepted(c) ==
    AcceptedSince(c, IF now - window_seconds + 1 > 0 THEN now - window_seconds + 1
                     ELSE 0)

C29_Step(c) ==
    rate_limit_call(c) =>
        /\ response'.client = c
        /\ response'.status = IF RecentlyAccepted(c) < max_requests THEN 200 ELSE 429
        /\ response'.status = 429 =>
              /\ response'.accepted = response.accepted
              /\ rate_limit_storage'[c] =
                    SelectSeq(Get(rate_limit_storage, c),
                              LAMBDA timestamp : now - timestamp < window_seconds)
        /\ \A d \in Clients \ {c} :
              /\ response'.accepted[d] = response.accepted[d]
              /\ Get(rate_limit_storage', d) = Get(rate_limit_storage, d)
              /\ (d \in DOMAIN rate_limit_storage') = (d \in DOMAIN rate_limit_storage)

\* C29: the rate limiter accepts a request of a client exactly when fewer than
\* max_requests requests of that client were accepted in the preceding
\* window_seconds, and otherwise rejects it with 429 without recording it: at
\* every instant at most max_requests accepted requests of a client from the
\* last window_seconds are stored, an accepted timestamp of age >= window_seconds
\* no longer counts, and the requests of one client change nothing for another.
C29_RateLimitPerClientWindow ==
    /\ [][\A c \in Clients : C29_Step(c)]_vars
    /\ [](\A c \in DOMAIN rate_limit_storage :
             /\ Len(rate_limit_storage[c]) <= max_requests
             /\ RecentlyAccepted(c) =
                   Len(SelectSeq(rate_limit_storage[c],
                                 LAMBDA timestamp : now - timestamp < window_seconds)))

\* A client that was at its limit is accepted again once its requests are
\* window_seconds old, while the other client is at its own limit.
C29_Witness ==
    \E c \in Clients : \E d \in Clients \ {c} :
        /\ now >= window_seconds
        /\ response.client = c /\ response.status = 200
        /\ response.accepted[c][now] = 1
        /\ response.accepted[c][now - window_seconds] = max_requests
        /\ Len(rate_limit_storage[c]) = 1
        /\ d \in DOMAIN rate_limit_storage
        /\ Len(KeptTimestamps(rate_limit_storage[d], now)) = max_requests

\* What a step does when it is the evaluate_rules call of handler t, and what any
\* step does to table alerts.
C31_Step(t) ==
    /\ (ing[t].pc = "eval" /\ ing'[t].pc \in {"select", "commit"}) =>
          /\ alerts' = alerts /\ telemetry' = telemetry
          /\ alert_streams' = alert_streams /\ telemetry_streams' = telemetry_streams
          /\ pub' = pub /\ delivered' = delivered /\ dedup' = dedup
          /\ ing'[t].published = ing[t].published
          /\ ing'[t].new = ing[t].new /\ ing'[t].flushed = ing[t].flushed
          /\ ing'[t].alerts_generated = ing[t].alerts_generated
    /\ alerts' # alerts =>
          \E u \in Handlers :
              /\ ing[u].pc = "commit" /\ ing'[u].pc = "publish_telemetry"
              /\ alerts' \ alerts \subseteq SessionAlerts(Autoflush(ing[u], nextId, now))

\* C31: an evaluate_rules call leaves the persisted alerts, the persisted
\* telemetry and the stream registry as they are, checks no deduplication, adds
\* no alert to the session and publishes no event; rows enter table alerts only
\* from the session of an ingest_telemetry call, at its commit.
C31_EvaluateRulesHasNoSideEffect == [][\A t \in Handlers : C31_Step(t)]_vars

\* An evaluation returned a triggered result: the session holds no alert yet and
\* nothing was published.
C31_Witness ==
    \E t \in Handlers :
        /\ ing[t].pc = "select" /\ Len(ing[t].rule_results) >= 1
        /\ ing[t].new = <<>> /\ ing[t].flushed = {} /\ ing[t].published = <<>>
        /\ pub[t].stage = "idle"

\* The rule is one evaluate_rules gets a triggered result from: it is active, its
\* configuration parses, its type is one the threshold evaluator serves, and the
\* evaluator returns triggered = true.  (The records of these ingestions carry no
\* species detections and table zones is empty: the proximity and the zone_dwell
\* evaluator return triggered = false.)
Contributes(record, rule) ==
    /\ rule.active
    /\ rule.config.severity \in {"low", "medium", "high"}
    /\ rule.config.dedupe_window_sec >= 0
    /\ rule.config.type \in {"threshold", "battery", "dissolved_oxygen"}
    /\ ~ThresholdRaises(record, rule.config)
    /\ evaluate_threshold(record, rule.config).triggered

\* What the evaluate_rules call of handler t returns.
C32_Step(t) ==
    (ing[t].pc = "eval" /\ ing'[t].pc \in {"select", "commit"}) =>
        LET contributing ==
                SelectSeq(alert_rules, LAMBDA rule : Contributes(ing[t].data, rule))
        IN ing'[t].rule_results =
               [i \in 1..Len(contributing) |->
                   evaluate_threshold(ing[t].data, contributing[i].config)]

RECURSIVE AtBrackets(_, _)
AtBrackets(current, keys) ==
    IF keys = <<>> \/ current.t # "dict" THEN <<>>
    ELSE IF Head(keys) = "items[]" THEN <<[object |-> current.v, field |-> "items"]>>
    ELSE IF Head(keys) \in DOMAIN current.v
         THEN AtBrackets(current.v[Head(keys)], Tail(keys))
         ELSE <<>>

\* C33: a segment suffixed with "[]" ends the lookup, whatever segments follow
\* it: the result is the list stored under the field ("items[].id" on
\* {"items": [{"id": 1}, {"id": 2}]} gives the list of the two objects), and the
\* empty list when the object has no such field or the field holds no list.
C33_BracketSegmentReturnsArray ==
    (evaluated.fn = "get_value_by_path" /\ evaluated.outcome # "called") =>
        LET at == AtBrackets(evaluated.obj, PathKeys(evaluated.path))
        IN at # <<>> =>
              /\ evaluated.outcome = "return"
              /\ evaluated.result.t = "list"
              /\ IF at[1].field \in DOMAIN at[1].object
                 THEN IF at[1].object[at[1].field].t = "list"
                      THEN evaluated.result.v = at[1].object[at[1].field].v
                      ELSE evaluated.result.v = <<>>
                 ELSE evaluated.result.v = <<>>

\* "items[].id" was looked up on {"items": [{"id": 1}, {"id": 2}]} and gave the
\* two-element list.
C33_Witness ==
    /\ evaluated.fn = "get_value_by_path" /\ evaluated.outcome = "return"
    /\ evaluated.path = "items[].id"
    /\ "items" \in DOMAIN evaluated.obj.v
    /\ evaluated.obj.v["items"].t = "list"
    /\ Len(evaluated.obj.v["items"].v) = 2
    /\ evaluated.result.t = "list"
    /\ Len(evaluated.result.v) = 2
    /\ evaluated.result.v[1].t = "dict"

\* What a step does to the two channels: a step of a publish call changes the
\* dict of the call's channel only, and sends to the sinks it copied from that
\* dict only; a subscribe or unsubscribe changes one dict, as does every step
\* but a shutdown.
C34_Step ==
    /\ \A t \in Tasks :
          /\ (pub[t].stage \in {"snap", "check", "send"} /\ pub'[t] # pub[t]) =>
                /\ pub[t].chan = "alert" => telemetry_streams' = telemetry_streams
                /\ pub[t].chan = "telemetry" => alert_streams' = alert_streams
          /\ (pub[t].stage = "snap" /\ pub'[t].stage = "check") =>
                \A i \in 1..Len(pub'[t].streams) :
                    Count(pub'[t].streams[i],
                          Get(IF pub[t].chan = "alert" THEN alert_streams
                              ELSE telemetry_streams, PassKey(pub[t]))) > 0
          /\ pub[t].stage \in {"check", "send"} =>
                /\ pub'[t].chan = pub[t].chan
                /\ pub'[t].streams \in {pub[t].streams, Tail(pub[t].streams), <<>>}
    /\ (invoked' # invoked /\ invoked'.sink # None) =>
          \E t \in Tasks : pub[t].stage = "send" /\ invoked'.sink = Head(pub[t].streams)
    /\ \A a \in SubscribeArgs, r \in Sinks :
          /\ (add_alert_stream(a, r) \/ remove_alert_stream(a, r)) =>
                telemetry_streams' = telemetry_streams
          /\ (add_telemetry_stream(a, r) \/ remove_telemetry_stream(a, r)) =>
                alert_streams' = alert_streams
    /\ closed' = closed =>
          alert_streams' = alert_streams \/ telemetry_streams' = telemetry_streams

\* C34: the alert channel and the telemetry channel are independent: a
\* subscribe, an unsubscribe, a publish and the pruning a publish does on one
\* channel leave the other channel's dict as it is, and an event of one channel is
\* sent to no sink that is registered on the other channel only.
C34_ChannelsIndependent ==
    /\ [](\A t \in Tasks :
            base[t].ok =>
                \A s \in Sinks : ~Registered(base[t].reg, s) => base[t].sent[s] = 0)
    /\ [][C34_Step]_vars

\* An undisturbed alert publish reached the sink registered for alerts and not
\* the connected sink registered for telemetry only, which is still registered
\* there.
C34_Witness ==
    \E t \in Publishers, s \in Sinks, r \in Sinks :
        /\ QuietReturn(t) /\ pub[t].chan = "alert"
        /\ Registered(alert_streams, s) /\ base[t].sent[s] = 1
        /\ r \in connected /\ ~Registered(alert_streams, r)
        /\ Registered(telemetry_streams, r) /\ base[t].sent[r] = 0

\* The unsubscribe of request under key on channel ch has returned: the
\* endpoint's generator has left through its "finally" block, which called
\* remove_*_stream for the key the request was registered under.  (A request is
\* registered by its generator only, once.)
Unsubscribed(ch, key, request) ==
    /\ gen[request].pc = "closed"
    /\ gen[request].chan = ch
    /\ KeyOf(gen[request].auv_id) = key

\* What a step that calls send_json for task t's publish does.
C35_Step(t) ==
    (pub[t].stage = "send" /\ pub'[t] # pub[t]
        /\ invoked'.sink = Head(pub[t].streams)) =>
        ~Unsubscribed(pub[t].chan, PassKey(pub[t]), Head(pub[t].streams))

\* C35: once the unsubscribe of a sink under a key has returned, no publish
\* calls send on the sink for that key, not even a publish that copied the key's
\* list before the removal and is still delivering.
C35_NoSendAfterUnsubscribe == [][\A t \in Tasks : C35_Step(t)]_vars

\* The sink is registered once in the dict, under "all".
OnceUnderAll(d, s) ==
    /\ Count(s, Get(d, ALL)) = 1
    /\ \A k \in DOMAIN d \ {ALL} : Count(s, d[k]) = 0

\* C36: whatever key a publish is called with, the literal "all" included, a
\* connected sink registered once under "all" is sent the event exactly once.
C36_AllSinkReceivesOnce ==
    \A t \in Tasks :
        QuietReturn(t) =>
            \A s \in connected :
                OnceUnderAll(base[t].reg, s) => base[t].sent[s] = 1

\* C37: check_deduplication answers false, and does not raise, whenever at least
\* one alert of the AUV and the rule lies inside the window, also when two or
\* more do.
C37_DedupRefusesWithoutRaising ==
    (dedup.result # None
        /\ \E a \in dedup.rows : SamePair(a) /\ Age(a) <= dedup.window) =>
        dedup.result = "False"

\* The ids of the rules whose stored configuration has dedupe_window_sec = 0.
ZeroWindowRules ==
    {alert_rules[k].id : k \in {i \in 1..Len(alert_rules) :
                                    alert_rules[i].config.dedupe_window_sec = 0}}

C39_OneAlertPerRulePerIngestion ==
    \A t \in Handlers :
        \A a, b \in AlertsOf(ing[t]) \cup SessionAlerts(ing[t]) :
            (a.telemetry_id = b.telemetry_id /\ a.rule_id = b.rule_id
                /\ a.id # 0 /\ b.id # 0) => a = b

\* C40: the id in every alert event an ingestion published is the id of the
\* alert it persisted for the event, and the id in its telemetry event is the id
\* of the persisted telemetry record, the telemetry_id of the response.
C40_EventIdsArePersistedIds ==
    \A t \in Handlers :
        ing[t].pc = "done" =>
            \A i \in 1..Len(ing[t].events) :
                LET event == ing[t].events[i]
                IN IF event.chan = "alert"
                   THEN \E a \in AlertsOf(ing[t]) :
                            a.id = event.id /\ a.title = event.title
                   ELSE event.id = ing[t].telemetry_id /\ event.id \in telemetry

====
